---- MODULE Spec2Model ----
(***************************************************************************)
(* World-model engine of the Advanced Story Engine: the Entity Store       *)
(* (core/EntityManager.js), the Relationship Graph                          *)
(* (core/RelationshipGraph.js), the World Parameter Store (WorldState),    *)
(* the Validation Engine (ValidationSystem) and the Creation Pipeline      *)
(* (systems/CreationSystem.js).                                            *)
(*                                                                         *)
(* JavaScript values: a missing property is Undefined, null is Null; an    *)
(* object keyed by id is a function whose DOMAIN is the set of its keys.   *)
(***************************************************************************)
EXTENDS Integers, Sequences, FiniteSets, TLC

VARIABLES
    entities,            \* EntityManager.entities: kind -> (id -> entity)
    creationHistory,     \* EntityManager.creationHistory: kind -> sequence
    relationships,       \* RelationshipGraph.relationships: Map of Maps
    playerStandings,     \* RelationshipGraph.playerStandings
    relationshipHistory, \* RelationshipGraph.relationshipHistory
    globalParameters,    \* WorldState.globalParameters
    worldChanges,        \* WorldState.history.worldChanges
    events,              \* WorldState.events (current, completed, failed)
    information,         \* WorldState.information (rumorMill, news)
    processingLock,      \* CreationSystem.processingLock
    creationQueue,       \* CreationSystem.creationQueue
    pc,                  \* await point of the call that holds the lock
    cur,                 \* detection the running createEntitiesFromDetection works on
    idx,                 \* index of its next item, in the order of the five loops
    validation,          \* result of the validation the call is awaiting
    results,             \* results object of the running createEntitiesFromDetection
    firstResults,        \* `results` of line 23, what the call returns
    threw,               \* error raised by applyWorldUpdates, not yet observed
    ret,                 \* outcome of the last call made from outside
    submitted,           \* number of processEntityCreation calls so far
    before,              \* pairs <<p, q>>: batch q was submitted while p was in flight or queued
    finished,            \* batches whose commit sequence has ended
    calls,               \* number of direct store calls so far
    player,              \* StoryEngine.player
    storyContext,        \* StoryEngine.storyContext
    meta,                \* StoryEngine.meta
    temporal,            \* WorldState.temporal
    now                  \* the instant new Date() reads

vars ==
    <<entities, creationHistory, relationships, playerStandings,
      relationshipHistory, globalParameters, worldChanges, events, information,
      processingLock, creationQueue, pc, cur, idx, validation, results,
      firstResults, threw, ret, submitted, before, finished, calls,
      player, storyContext, meta, temporal, now>>

entityVars ==
    <<entities, creationHistory>>

graphVars ==
    <<relationships, playerStandings, relationshipHistory>>

worldVars ==
    <<globalParameters, worldChanges, events, information>>

pipelineVars ==
    <<processingLock, creationQueue, pc, cur, idx, validation, results,
      firstResults, threw, submitted, before, finished>>

engineVars ==
    <<player, storyContext, meta, temporal, now>>

storeVars ==
    <<entities, creationHistory, relationships, playerStandings,
      relationshipHistory, globalParameters, worldChanges, events, information>>

-----------------------------------------------------------------------------
(* Bounds of the model *)

\* townsfolk already living in the village square besides the village elder
Townsfolk ==
    13

\* processEntityCreation calls explored
MaxBatches ==
    3

\* direct calls to a store explored
MaxCalls ==
    3

\* direct calls to the Relationship Graph explored
MaxGraphCalls ==
    2

\* events already current when the batches explored begin
StartingEvents ==
    8

\* the last instant the clock of the host reaches
MaxClock ==
    3

-----------------------------------------------------------------------------
(* JavaScript values *)

Undefined ==
    "undefined"

Null ==
    "null"

None ==
    "none"

\* what the call awaits when it awaits no validation
NoValidation ==
    [valid |-> FALSE, warnings |-> <<"none">>]

\* a || b for a value that is Undefined when missing
OrElse(a, b) ==
    IF a = Undefined \/ a = Null THEN b ELSE a

\* JavaScript truthiness of a string-valued field
Truthy(v) ==
    v \notin {Undefined, Null, ""}

\* obj[key], undefined for a key obj does not have
Prop(obj, key) ==
    IF key \in DOMAIN obj THEN obj[key] ELSE Undefined

Max(a, b) ==
    IF a >= b THEN a ELSE b

Min(a, b) ==
    IF a <= b THEN a ELSE b

\* the last n elements of s: s.slice(-n)
SliceLast(s, n) ==
    IF Len(s) > n THEN SubSeq(s, Len(s) - n + 1, Len(s)) ELSE s

-----------------------------------------------------------------------------
(* utils/Constants.js *)

ENTITY_TYPES ==
    <<"npc", "faction", "location", "item", "event">>

Kinds ==
    {ENTITY_TYPES[i] : i \in DOMAIN ENTITY_TYPES}

MAX_NPCS_PER_LOCATION ==
    15

MAX_ACTIVE_EVENTS ==
    10

-----------------------------------------------------------------------------
(* DataStructures: the entity classes.  The model keeps of every entity its *)
(* id, type, name, location and connectedTo, and of a faction its          *)
(* leadership.                                                             *)

\* new NPC(id, data)
NPC(id, data) ==
    [id |-> id, type |-> "npc", name |-> OrElse(data.name, "Unknown"),
     location |-> OrElse(data.location, Null), connectedTo |-> <<>>]

\* new Faction(id, data): this.type = data.type || 'political'
Faction(id, data) ==
    [id |-> id, type |-> OrElse(data.type, "political"),
     name |-> OrElse(data.name, "Unknown Faction"),
     location |-> Undefined, connectedTo |-> <<>>,
     leadership |-> IF "leadership" \in DOMAIN data
                    THEN data.leadership ELSE <<>>]

\* new Location(id, data)
Location(id, data) ==
    [id |-> id, type |-> OrElse(data.type, "settlement"),
     name |-> OrElse(data.name, "Unknown Location"),
     location |-> Undefined, connectedTo |-> data.connectedTo]

\* new Item(id, data)
Item(id, data) ==
    [id |-> id, type |-> OrElse(data.type, "misc"),
     name |-> OrElse(data.name, "Unknown Item"),
     location |-> OrElse(data.location, "world"), connectedTo |-> <<>>]

\* new GameEvent(id, data)
GameEvent(id, data) ==
    [id |-> id, type |-> OrElse(data.type, "social"),
     name |-> OrElse(data.name, "Unknown Event"),
     location |-> Undefined, connectedTo |-> <<>>]

\* proposed data: the fields a payload item or a caller supplies
Data(id, name, type, location) ==
    [id |-> id, name |-> name, type |-> type, location |-> location,
     age |-> Undefined, connectedTo |-> <<>>]

-----------------------------------------------------------------------------
(* core/EntityManager.js *)

\* the switch of createEntity
Construct(type, id, data) ==
    CASE type = "npc" -> NPC(id, data)
      [] type = "faction" -> Faction(id, data)
      [] type = "location" -> Location(id, data)
      [] type = "item" -> Item(id, data)
      [] type = "event" -> GameEvent(id, data)

\* createEntity without the existence check of lines 24-26
createEntityOverwrite(ents, hist, type, id, data) ==
    [threw |-> None,
     entities |-> [ents EXCEPT ![type] =
                     (id :> Construct(type, id, data)) @@ @],
     creationHistory |-> [hist EXCEPT ![type] =
                            Append(@, [id |-> id, data |-> data])]]

\* createEntity(type, id, data) on a store (ents, hist): the error it throws,
\* if any, and the store it leaves
createEntity(ents, hist, type, id, data) ==
    IF type \notin DOMAIN ents
    THEN [threw |-> "TypeError", entities |-> ents, creationHistory |-> hist]
    ELSE IF id \in DOMAIN ents[type]
    THEN [threw |-> "already exists", entities |-> ents,
          creationHistory |-> hist]
    ELSE [threw |-> None,
          entities |-> [ents EXCEPT ![type] =
                          (id :> Construct(type, id, data)) @@ @],
          creationHistory |-> [hist EXCEPT ![type] =
                                 Append(@, [id |-> id, data |-> data])]]

\* getEntity(type, id)
getEntity(ents, type, id) ==
    IF id \in DOMAIN ents[type] THEN ents[type][id] ELSE Null

\* Object.assign(target, source)
ObjectAssign(target, source) ==
    [k \in DOMAIN target \cup DOMAIN source |->
        IF k \in DOMAIN source THEN source[k] ELSE target[k]]

\* updateEntity(type, id, data): the error it throws, if any, whether it
\* returns an entity (found) or null, and the entities it leaves
updateEntity(ents, type, id, data) ==
    IF type \notin DOMAIN ents
    THEN [threw |-> "TypeError", found |-> FALSE, entities |-> ents]
    ELSE IF id \in DOMAIN ents[type]
    THEN [threw |-> None, found |-> TRUE,
          entities |-> [ents EXCEPT ![type][id] = ObjectAssign(@, data)]]
    ELSE [threw |-> None, found |-> FALSE, entities |-> ents]

\* updateEntity(type, id, updates) of EntityManager.js.new
updateEntityChecked(ents, type, id, updates) ==
    IF type \notin Kinds
    THEN [threw |-> "Invalid entity type", found |-> FALSE, entities |-> ents]
    ELSE IF id \in DOMAIN ents[type]
    THEN [threw |-> None, found |-> TRUE,
          entities |-> [ents EXCEPT ![type][id] = ObjectAssign(@, updates)]]
    ELSE [threw |-> "not found", found |-> FALSE, entities |-> ents]

\* deleteEntity that removes the id under every kind
deleteEntityEveryKind(ents, type, id) ==
    IF type \notin DOMAIN ents
    THEN [threw |-> "TypeError", value |-> FALSE, entities |-> ents]
    ELSE [threw |-> None, value |-> id \in DOMAIN ents[type],
          entities |-> [k \in DOMAIN ents |->
                           [i \in DOMAIN ents[k] \ {id} |-> ents[k][i]]]]

\* list without the entries equal to id
Without(list, id) ==
    SelectSeq(list, LAMBDA x : x # id)

\* deleteEntity that also takes the id out of what other records refer to
deleteEntityCascading(ents, type, id) ==
    IF type \notin DOMAIN ents
    THEN [threw |-> "TypeError", value |-> FALSE, entities |-> ents]
    ELSE IF id \in DOMAIN ents[type]
    THEN [threw |-> None, value |-> TRUE,
          entities |->
              [k \in DOMAIN ents |->
                  [i \in DOMAIN ents[k] \ (IF k = type THEN {id} ELSE {}) |->
                      LET r == ents[k][i]
                          s == [r EXCEPT
                                  !.connectedTo = Without(@, id),
                                  !.location = IF @ = id THEN Null ELSE @]
                      IN  IF "leadership" \in DOMAIN r
                          THEN [s EXCEPT !.leadership = Without(@, id)]
                          ELSE s]]]
    ELSE [threw |-> None, value |-> FALSE, entities |-> ents]

\* deleteEntity(type, id): the error it throws, if any, what it returns and
\* the entities it leaves
deleteEntity(ents, type, id) ==
    IF type \notin DOMAIN ents
    THEN [threw |-> "TypeError", value |-> FALSE, entities |-> ents]
    ELSE IF id \in DOMAIN ents[type]
    THEN [threw |-> None, value |-> TRUE,
          entities |-> [ents EXCEPT ![type] =
                          [i \in DOMAIN @ \ {id} |-> @[i]]]]
    ELSE [threw |-> None, value |-> FALSE, entities |-> ents]

\* getAllEntities(type), as the set of the stored records
getAllEntities(ents, type) ==
    {ents[type][i] : i \in DOMAIN ents[type]}

-----------------------------------------------------------------------------
(* The world a StoryEngine starts with *)

Ids ==
    {"village_square", "a", "b"}

TownsfolkIds ==
    {"t" \o ToString(i) : i \in 1..Townsfolk}

EmptyMap ==
    [i \in {} |-> Null]

\* new EntityManager()
EmptyEntities ==
    [k \in Kinds |-> EmptyMap]

EmptyHistory ==
    [k \in Kinds |-> <<>>]

\* StoryEngine.initializeStartingWorld, followed by the townsfolk
StartingEntities ==
    [EmptyEntities EXCEPT
       !["npc"] = [i \in {"village_elder"} \cup TownsfolkIds |->
                     NPC(i, Data(i, i, Undefined, "village_square"))],
       !["faction"] = [i \in {"village_council"} |->
                     Faction(i, [Data(i, i, "political", Undefined) EXCEPT
                                    !.connectedTo = <<>>]
                                @@ [leadership |-> <<"village_elder">>])],
       !["location"] = [i \in {"village_square"} |->
                     Location(i, Data(i, i, "settlement", Undefined))],
       !["item"] = [i \in {"rusty_sword"} |->
                     Item(i, Data(i, i, "weapon", "player_inventory"))]]

-----------------------------------------------------------------------------
(* core/RelationshipGraph.js *)

\* setRelationship(entity1Id, entity2Id, relationshipData) on the Map of Maps
\* rels and the ledger hist
setRelationship(rels, hist, entity1Id, entity2Id, relationshipData) ==
    LET outer == IF entity1Id \in DOMAIN rels
                 THEN rels
                 ELSE (entity1Id :> EmptyMap) @@ rels
        relationship ==
            [type |-> OrElse(relationshipData.type, "neutral"),
             strength |-> IF relationshipData.strength = 0
                          THEN 50
                          ELSE relationshipData.strength,
             reason |-> OrElse(relationshipData.reason, ""),
             history |-> <<>>]
    IN  [relationships |->
             [outer EXCEPT ![entity1Id] = (entity2Id :> relationship) @@ @],
         relationshipHistory |->
             Append(hist, [entity1 |-> entity1Id, entity2 |-> entity2Id,
                           action |-> "established",
                           relationship |-> relationship])]

\* getRelationship(entity1Id, entity2Id)
getRelationship(rels, entity1Id, entity2Id) ==
    IF entity1Id \in DOMAIN rels /\ entity2Id \in DOMAIN rels[entity1Id]
    THEN rels[entity1Id][entity2Id]
    ELSE Null

\* setPlayerStanding(entityId, standing)
setPlayerStanding(standings, entityId, value) ==
    (entityId :> [value |-> value, history |-> <<>>, lastChange |-> Null])
        @@ standings

\* getPlayerStanding that stores the standing it makes up
getPlayerStandingStored(standings, entityId) ==
    IF entityId \in DOMAIN standings
    THEN [value |-> standings[entityId], playerStandings |-> standings]
    ELSE [value |-> [value |-> 0, history |-> <<>>, lastChange |-> Null],
          playerStandings |-> setPlayerStanding(standings, entityId, 0)]

\* getPlayerStanding(entityId): the standing it returns and the standings it
\* leaves
getPlayerStanding(standings, entityId) ==
    [value |-> IF entityId \in DOMAIN standings
               THEN standings[entityId]
               ELSE [value |-> 0, history |-> <<>>, lastChange |-> Null],
     playerStandings |-> standings]

\* the length a standing's history is cut back to
StandingHistoryLimit ==
    50

\* updatePlayerStanding that keeps the oldest entries of the history
updatePlayerStandingOldest(standings, entityId, change, reason) ==
    LET known == IF entityId \in DOMAIN standings
                 THEN standings
                 ELSE setPlayerStanding(standings, entityId, 0)
        standing == known[entityId]
        lastChange == [amount |-> change, reason |-> reason,
                       previousValue |-> standing.value]
        history == Append(standing.history, lastChange)
    IN  [known EXCEPT
           ![entityId] =
               [value |-> standing.value + change,
                lastChange |-> lastChange,
                history |-> SubSeq(history, 1,
                                   Min(Len(history), StandingHistoryLimit))]]

\* updatePlayerStanding(entityId, change, reason): the standings it leaves
updatePlayerStanding(standings, entityId, change, reason) ==
    LET known == IF entityId \in DOMAIN standings
                 THEN standings
                 ELSE setPlayerStanding(standings, entityId, 0)
        standing == known[entityId]
        lastChange == [amount |-> change, reason |-> reason,
                       previousValue |-> standing.value]
        history == Append(standing.history, lastChange)
    IN  [known EXCEPT
           ![entityId] =
               [value |-> standing.value + change,
                lastChange |-> lastChange,
                history |-> IF Len(history) > StandingHistoryLimit
                            THEN SliceLast(history, StandingHistoryLimit)
                            ELSE history]]

\* the entry of map without the key id: Map.prototype.delete
DeleteKey(map, id) ==
    [k \in DOMAIN map \ {id} |-> map[k]]

\* updateRelationship that creates the edge it does not find
updateRelationshipUpsert(rels, hist, entity1Id, entity2Id, changes) ==
    LET known == entity1Id \in DOMAIN rels
                 /\ entity2Id \in DOMAIN rels[entity1Id]
        g == IF known
             THEN [relationships |-> rels, relationshipHistory |-> hist]
             ELSE setRelationship(rels, hist, entity1Id, entity2Id,
                                  [type |-> Undefined, strength |-> 0,
                                   reason |-> Undefined])
        oldRelationship == g.relationships[entity1Id][entity2Id]
    IN  [threw |-> None,
         relationships |->
             [g.relationships EXCEPT
                 ![entity1Id][entity2Id] =
                     [oldRelationship EXCEPT
                         !.strength = changes.strength,
                         !.history = Append(@, [change |-> changes])]],
         relationshipHistory |->
             Append(g.relationshipHistory,
                    [entity1 |-> entity1Id, entity2 |-> entity2Id,
                     action |-> "updated", changes |-> changes])]

\* updateRelationship that leaves the history of the edge alone
updateRelationshipNoHistory(rels, hist, entity1Id, entity2Id, changes) ==
    IF ~(entity1Id \in DOMAIN rels /\ entity2Id \in DOMAIN rels[entity1Id])
    THEN [threw |-> "does not exist", relationships |-> rels,
          relationshipHistory |-> hist]
    ELSE [threw |-> None,
          relationships |->
              [rels EXCEPT ![entity1Id][entity2Id].strength = changes.strength],
          relationshipHistory |->
              Append(hist, [entity1 |-> entity1Id, entity2 |-> entity2Id,
                            action |-> "updated", changes |-> changes])]

\* updateRelationship(entity1Id, entity2Id, changes) for changes that carry a
\* strength: the error it throws, if any, and the graph it leaves
updateRelationship(rels, hist, entity1Id, entity2Id, changes) ==
    IF ~(entity1Id \in DOMAIN rels /\ entity2Id \in DOMAIN rels[entity1Id])
    THEN [threw |-> "does not exist", relationships |-> rels,
          relationshipHistory |-> hist]
    ELSE LET oldRelationship == rels[entity1Id][entity2Id]
             relationship ==
                 [oldRelationship EXCEPT
                     !.strength = changes.strength,
                     !.history =
                         Append(@, [change |-> changes,
                                    previousState |->
                                        [type |-> oldRelationship.type,
                                         strength |-> oldRelationship.strength,
                                         reason |-> oldRelationship.reason]])]
         IN  [threw |-> None,
              relationships |->
                  [rels EXCEPT ![entity1Id][entity2Id] = relationship],
              relationshipHistory |->
                  Append(hist, [entity1 |-> entity1Id, entity2 |-> entity2Id,
                                action |-> "updated", changes |-> changes])]

\* the running sum and count of the loop of calculateRelationshipStrength
\* over the intermediates still to visit
RECURSIVE indirectStrength(_, _, _, _)
indirectStrength(rels, todo, entity1Id, entity2Id) ==
    IF todo = {}
    THEN [sum |-> 0, connectionCount |-> 0]
    ELSE LET intermediateId == CHOOSE i \in todo : TRUE
             rest == indirectStrength(rels, todo \ {intermediateId},
                                      entity1Id, entity2Id)
         IN  IF /\ intermediateId \in DOMAIN rels
                /\ entity2Id \in DOMAIN rels[intermediateId]
             THEN [sum |-> rest.sum
                            + rels[entity1Id][intermediateId].strength
                              * rels[intermediateId][entity2Id].strength,
                   connectionCount |-> rest.connectionCount + 1]
             ELSE rest

\* calculateRelationshipStrength with the sum of the paths returned instead
\* of their average
calculateRelationshipStrengthSum(rels, entity1Id, entity2Id) ==
    IF entity1Id \in DOMAIN rels /\ entity2Id \in DOMAIN rels[entity1Id]
    THEN [num |-> rels[entity1Id][entity2Id].strength, den |-> 1]
    ELSE IF entity1Id \in DOMAIN rels
         THEN [num |-> indirectStrength(rels, DOMAIN rels[entity1Id],
                                        entity1Id, entity2Id).sum,
               den |-> 100]
         ELSE [num |-> 0, den |-> 1]

\* calculateRelationshipStrength(entity1Id, entity2Id): the number it
\* returns, as the fraction num / den (each path adds s1 * s2 / 100)
calculateRelationshipStrength(rels, entity1Id, entity2Id) ==
    IF entity1Id \in DOMAIN rels /\ entity2Id \in DOMAIN rels[entity1Id]
    THEN [num |-> rels[entity1Id][entity2Id].strength, den |-> 1]
    ELSE LET i == IF entity1Id \in DOMAIN rels
                  THEN indirectStrength(rels, DOMAIN rels[entity1Id],
                                        entity1Id, entity2Id)
                  ELSE [sum |-> 0, connectionCount |-> 0]
         IN  IF i.connectionCount > 0
             THEN [num |-> i.sum, den |-> 100 * i.connectionCount]
             ELSE [num |-> 0, den |-> 1]

RECURSIVE totalStrength(_, _)
\* totalStrength after the loop of analyzeRelationshipNetwork has visited
\* the targets in todo
totalStrength(relationships_, todo) ==
    IF todo = {}
    THEN 0
    ELSE LET targetId == CHOOSE t \in todo : TRUE
         IN  relationships_[targetId].strength
             + totalStrength(relationships_, todo \ {targetId})

\* the targets the loop of analyzeRelationshipNetwork can leave in
\* mostTrusted (type 'ally') or mostFeared (type 'enemy'): the running
\* maximum starts at 0 and is replaced by a strictly greater strength only,
\* so the loop leaves the first target, in the order of insertion, among
\* those of the greatest strength, and null when no strength is above 0
strongestOf(relationships_, type) ==
    LET ofType == {t \in DOMAIN relationships_ :
                      relationships_[t].type = type
                      /\ relationships_[t].strength > 0}
        greatest == {t \in ofType :
                        \A u \in ofType : relationships_[u].strength
                                              <= relationships_[t].strength}
    IN  IF ofType = {} THEN {Null} ELSE greatest

\* analyzeRelationshipNetwork(entityId): the analysis it returns, with
\* totalStrength for averageStrength (the total divided by the size) and,
\* for mostTrusted and mostFeared, the targets the loop can end with
analyzeRelationshipNetwork(rels, entityId) ==
    IF entityId \notin DOMAIN rels
    THEN [directConnections |-> 0, allies |-> 0, enemies |-> 0,
          neutral |-> 0, totalStrength |-> 0, mostTrusted |-> {Null},
          mostFeared |-> {Null}, networkInfluence |-> 0]
    ELSE LET relationships_ == rels[entityId]
             allies == Cardinality({t \in DOMAIN relationships_ :
                                       relationships_[t].type = "ally"})
             enemies == Cardinality({t \in DOMAIN relationships_ :
                                        relationships_[t].type = "enemy"})
             neutral == Cardinality({t \in DOMAIN relationships_ :
                                        relationships_[t].type
                                            \notin {"ally", "enemy"}})
         IN  [directConnections |-> Cardinality(DOMAIN relationships_),
              allies |-> allies, enemies |-> enemies, neutral |-> neutral,
              totalStrength |->
                  totalStrength(relationships_, DOMAIN relationships_),
              mostTrusted |-> strongestOf(relationships_, "ally"),
              mostFeared |-> strongestOf(relationships_, "enemy"),
              networkInfluence |-> (allies * 2) - enemies + neutral]

-----------------------------------------------------------------------------
(* RelationshipGraph, the variant with input validation (part_004) *)

\* Object.values(RELATIONSHIP_TYPES): six objects; a string is none of them
RelationshipTypeObjects ==
    {"[object TRUST]", "[object FEAR]", "[object RESPECT]", "[object LOVE]",
     "[object RIVALRY]", "[object ALLIANCE]"}

\* the size the relationship ledger is trimmed to
RelationshipHistoryLimit ==
    1000

\* setRelationship(entity1Id, entity2Id, relationshipData) of the validating
\* variant, for ids that are non-empty strings: the error it throws, if any,
\* and the graph it leaves
setRelationshipValidated(rels, hist, entity1Id, entity2Id, relationshipData) ==
    LET type == OrElse(relationshipData.type, "neutral")
        strength == relationshipData.strength
        reason == OrElse(relationshipData.reason, "")
        rejected(why) == [threw |-> why, relationships |-> rels,
                          relationshipHistory |-> hist]
    IN  IF entity1Id = entity2Id
        THEN rejected("itself")
        ELSE IF type \notin RelationshipTypeObjects
        THEN rejected("Invalid relationship type")
        ELSE IF strength < 0 \/ strength > 100
        THEN rejected("strength")
        ELSE
        LET existing == entity1Id \in DOMAIN rels
                        /\ entity2Id \in DOMAIN rels[entity1Id]
            relationship ==
                [type |-> type,
                 strength |-> Max(0, Min(100, strength)),
                 reason |-> reason,
                 history |->
                     Append(IF existing
                            THEN rels[entity1Id][entity2Id].history
                            ELSE <<>>,
                            [type |-> type, strength |-> strength,
                             reason |-> IF reason = ""
                                        THEN "Relationship updated"
                                        ELSE reason])]
            outer1 == IF entity1Id \in DOMAIN rels
                      THEN rels
                      ELSE (entity1Id :> EmptyMap) @@ rels
            written == [outer1 EXCEPT
                           ![entity1Id] = (entity2Id :> relationship) @@ @]
            outer2 == IF entity2Id \in DOMAIN written
                      THEN written
                      ELSE (entity2Id :> EmptyMap) @@ written
        IN  [threw |-> None,
             relationships |-> outer2,
             relationshipHistory |->
                 SliceLast(Append(hist,
                               [entity1 |-> entity1Id, entity2 |-> entity2Id,
                                action |-> IF existing THEN "updated"
                                           ELSE "established",
                                relationship |-> relationship]),
                           RelationshipHistoryLimit)]

\* removeRelationship with the clean-up of the reverse edge left out
removeRelationshipOneWay(rels, hist, entity1Id, entity2Id) ==
    IF entity1Id \in DOMAIN rels /\ entity2Id \in DOMAIN rels[entity1Id]
    THEN [removed |-> TRUE,
          relationships |->
              [rels EXCEPT ![entity1Id] = DeleteKey(@, entity2Id)],
          relationshipHistory |-> hist]
    ELSE [removed |-> FALSE, relationships |-> rels,
          relationshipHistory |-> hist]

\* removeRelationship(entity1Id, entity2Id): what it returns and the graph
\* it leaves
removeRelationship(rels, hist, entity1Id, entity2Id) ==
    LET forward == entity1Id \in DOMAIN rels
                   /\ entity2Id \in DOMAIN rels[entity1Id]
        rels1 == IF forward
                 THEN [rels EXCEPT ![entity1Id] = DeleteKey(@, entity2Id)]
                 ELSE rels
        hist1 == IF forward
                 THEN Append(hist,
                          [entity1 |-> entity1Id, entity2 |-> entity2Id,
                           action |-> "removed",
                           relationship |-> rels[entity1Id][entity2Id]])
                 ELSE hist
        reverse == entity2Id \in DOMAIN rels1
                   /\ entity1Id \in DOMAIN rels1[entity2Id]
        rels2 == IF reverse
                 THEN [rels1 EXCEPT ![entity2Id] = DeleteKey(@, entity1Id)]
                 ELSE rels1
    IN  [removed |-> forward \/ reverse, relationships |-> rels2,
         relationshipHistory |-> hist1]

\* updateRelationship(entity1Id, entity2Id, changes) of the validating
\* variant, for changes that carry a strength
updateRelationshipValidated(rels, hist, entity1Id, entity2Id, changes) ==
    IF ~(entity1Id \in DOMAIN rels /\ entity2Id \in DOMAIN rels[entity1Id])
    THEN [threw |-> "does not exist", relationships |-> rels,
          relationshipHistory |-> hist]
    ELSE LET oldRelationship == rels[entity1Id][entity2Id]
             relationship ==
                 [oldRelationship EXCEPT
                     !.strength = changes.strength,
                     !.history =
                         Append(@, [changes |-> changes,
                                    reason |-> "Relationship updated"])]
         IN  [threw |-> None,
              relationships |->
                  [rels EXCEPT ![entity1Id][entity2Id] = relationship],
              relationshipHistory |->
                  Append(hist, [entity1 |-> entity1Id, entity2 |-> entity2Id,
                                action |-> "updated", changes |-> changes,
                                oldState |-> oldRelationship,
                                newState |-> relationship])]

-----------------------------------------------------------------------------
(* WorldState.  Parameter names are sequences of characters, so that       *)
(* String.prototype.toUpperCase is computed.                               *)

LowerCase ==
    <<"a", "b", "c", "d", "e", "f", "g", "h", "i", "j", "k", "l", "m",
      "n", "o", "p", "q", "r", "s", "t", "u", "v", "w", "x", "y", "z">>

UpperCase ==
    <<"A", "B", "C", "D", "E", "F", "G", "H", "I", "J", "K", "L", "M",
      "N", "O", "P", "Q", "R", "S", "T", "U", "V", "W", "X", "Y", "Z">>

\* s.toUpperCase()
toUpperCase(s) ==
    [i \in DOMAIN s |->
        IF \E j \in DOMAIN LowerCase : LowerCase[j] = s[i]
        THEN UpperCase[CHOOSE j \in DOMAIN LowerCase : LowerCase[j] = s[i]]
        ELSE s[i]]

tension ==
    <<"t", "e", "n", "s", "i", "o", "n">>

politicalStability ==
    <<"p", "o", "l", "i", "t", "i", "c", "a", "l",
      "S", "t", "a", "b", "i", "l", "i", "t", "y">>

economicState ==
    <<"e", "c", "o", "n", "o", "m", "i", "c", "S", "t", "a", "t", "e">>

magicalActivity ==
    <<"m", "a", "g", "i", "c", "a", "l",
      "A", "c", "t", "i", "v", "i", "t", "y">>

GLOBAL_TENSION ==
    <<"G", "L", "O", "B", "A", "L", "_", "T", "E", "N", "S", "I", "O", "N">>

POLITICAL_STABILITY ==
    <<"P", "O", "L", "I", "T", "I", "C", "A", "L", "_",
      "S", "T", "A", "B", "I", "L", "I", "T", "Y">>

ECONOMIC_STATE ==
    <<"E", "C", "O", "N", "O", "M", "I", "C", "_", "S", "T", "A", "T", "E">>

MAGICAL_ACTIVITY ==
    <<"M", "A", "G", "I", "C", "A", "L", "_",
      "A", "C", "T", "I", "V", "I", "T", "Y">>

\* Constants.WORLD_PARAMETERS
WORLD_PARAMETERS ==
    (GLOBAL_TENSION :> [min |-> 0, max |-> 100, default |-> 30])
    @@ (POLITICAL_STABILITY :> [min |-> 0, max |-> 100, default |-> 80])
    @@ (ECONOMIC_STATE :> [min |-> 0, max |-> 100, default |-> 50])
    @@ (MAGICAL_ACTIVITY :> [min |-> 0, max |-> 100, default |-> 20])

\* the globalParameters of new WorldState()
DefaultParameters ==
    (tension :> WORLD_PARAMETERS[GLOBAL_TENSION].default)
    @@ (politicalStability :> WORLD_PARAMETERS[POLITICAL_STABILITY].default)
    @@ (economicState :> WORLD_PARAMETERS[ECONOMIC_STATE].default)
    @@ (magicalActivity :> WORLD_PARAMETERS[MAGICAL_ACTIVITY].default)

\* the size history.worldChanges is trimmed to
WorldChangesLimit ==
    100

\* recordWorldChange(change)
recordWorldChange(changes, change) ==
    SliceLast(Append(changes, change), WorldChangesLimit)

\* updateGlobalParameter without the throw of line 65: a name that is not a
\* property of globalParameters is passed over in silence
updateGlobalParameterSilent(params, changes, parameter, change) ==
    [threw |-> IF parameter \in DOMAIN params THEN "TypeError" ELSE None,
     globalParameters |-> params, worldChanges |-> changes,
     value |-> Undefined]

\* updateGlobalParameter(parameter, change, reason): the error it throws, if
\* any, the parameters and the history it leaves, and the value it returns.
\* bounds is WORLD_PARAMETERS[parameter.toUpperCase()]; reading bounds.min
\* of an undefined bounds is a TypeError raised before the assignment.
updateGlobalParameter(params, changes, parameter, change) ==
    IF parameter \in DOMAIN params
    THEN LET oldValue == params[parameter]
             key == toUpperCase(parameter)
         IN  IF key \notin DOMAIN WORLD_PARAMETERS
             THEN [threw |-> "TypeError", globalParameters |-> params,
                   worldChanges |-> changes, value |-> Undefined]
             ELSE LET bounds == WORLD_PARAMETERS[key]
                      newValue == Max(bounds.min,
                                      Min(bounds.max, oldValue + change))
                  IN  [threw |-> None,
                       globalParameters |->
                           [params EXCEPT ![parameter] = newValue],
                       worldChanges |->
                           recordWorldChange(changes,
                               [type |-> "parameter_change",
                                parameter |-> parameter,
                                oldValue |-> oldValue,
                                newValue |-> newValue,
                                change |-> change]),
                       value |-> newValue]
    ELSE [threw |-> "Unknown global parameter", globalParameters |-> params,
          worldChanges |-> changes, value |-> Undefined]

\* addEvent(eventData): events.current and the history it leaves
addEvent(evs, changes, eventData) ==
    LET event == [id |-> eventData.id, name |-> eventData.name,
                  type |-> OrElse(eventData.type, "social"),
                  duration |-> OrElse(Prop(eventData, "duration"), "ongoing"),
                  endTime |-> OrElse(Prop(eventData, "endTime"), Null),
                  status |-> "active"]
    IN  [events |-> [evs EXCEPT !.current = Append(@, event)],
         worldChanges |->
             recordWorldChange(changes,
                 [type |-> "event_added", event |-> event])]

\* new Date(t).toISOString(): strings of one format, ordered as their
\* instants are
toISOString(t) ==
    "T" \o ToString(t)

\* the instant an ISO string stands for
TimeOf(s) ==
    CHOOSE t \in 0..(MaxClock + 1) : toISOString(t) = s

\* e => e.id === eventId, for findIndex: the first index (from 1) of an
\* event with that id, 0 when there is none
findIndex(current, eventId) ==
    LET found == {i \in 1..Len(current) : current[i].id = eventId}
    IN  IF found = {} THEN 0 ELSE CHOOSE i \in found : \A j \in found : i <= j

\* s.splice(i, 1) leaves s without its i-th element
Splice(s, i) ==
    SubSeq(s, 1, i - 1) \o SubSeq(s, i + 1, Len(s))

\* completeEvent with the event left in current as well
completeEventCopy(evs, changes, eventId, success, t) ==
    LET eventIndex == findIndex(evs.current, eventId)
    IN  IF eventIndex = 0
        THEN [threw |-> "not found in current events", events |-> evs,
              worldChanges |-> changes]
        ELSE LET event == [evs.current[eventIndex] EXCEPT
                              !.endTime = toISOString(t),
                              !.status = IF success THEN "completed"
                                         ELSE "failed"]
             IN  [threw |-> None,
                  events |->
                      IF success
                      THEN [evs EXCEPT !.completed = Append(@, event)]
                      ELSE [evs EXCEPT !.failed = Append(@, event)],
                  worldChanges |->
                      recordWorldChange(changes,
                          [type |-> "event_completed", event |-> event,
                           success |-> success])]

\* completeEvent(eventId, success) at instant t: the error it throws, if
\* any, and the events and the history it leaves
completeEvent(evs, changes, eventId, success, t) ==
    LET eventIndex == findIndex(evs.current, eventId)
    IN  IF eventIndex = 0
        THEN [threw |-> "not found in current events", events |-> evs,
              worldChanges |-> changes]
        ELSE LET event == [evs.current[eventIndex] EXCEPT
                              !.endTime = toISOString(t),
                              !.status = IF success THEN "completed"
                                         ELSE "failed"]
                 spliced == [evs EXCEPT
                                !.current = Splice(@, eventIndex)]
             IN  [threw |-> None,
                  events |->
                      IF success
                      THEN [spliced EXCEPT !.completed = Append(@, event)]
                      ELSE [spliced EXCEPT !.failed = Append(@, event)],
                  worldChanges |->
                      recordWorldChange(changes,
                          [type |-> "event_completed", event |-> event,
                           success |-> success])]

\* the temporal of new WorldState()
NewTemporal ==
    [timeOfDay |-> "morning", season |-> "spring", weather |-> "clear",
     day |-> 1, month |-> "firstmonth", year |-> 1000]

timeOfDayMap ==
    <<"dawn", "morning", "midday", "afternoon", "evening", "night">>

monthMap ==
    <<"firstmonth", "secondmonth", "thirdmonth", "fourthmonth">>

seasonMap ==
    <<"spring", "summer", "autumn", "winter">>

\* s.indexOf(v), counted from 0; -1 when v is not in s
indexOf(s, v) ==
    LET found == {i \in 1..Len(s) : s[i] = v}
    IN  IF found = {} THEN -1
        ELSE (CHOOSE i \in found : \A j \in found : i <= j) - 1

\* advanceYears(years)
advanceYears(tmp, years) ==
    [tmp EXCEPT !.year = @ + years]

RECURSIVE advanceMonthsFrom(_, _, _, _)
\* the loop of advanceMonths from its i-th turn on: the index it ends with
\* and the temporal it leaves
advanceMonthsFrom(tmp, currentMonthIndex, i, months) ==
    IF i >= months
    THEN [temporal |-> tmp, currentMonthIndex |-> currentMonthIndex]
    ELSE LET next == (currentMonthIndex + 1) % Len(monthMap)
         IN  advanceMonthsFrom(IF next = 0 THEN advanceYears(tmp, 1) ELSE tmp,
                               next, i + 1, months)

\* advanceMonths(months)
advanceMonths(tmp, months) ==
    LET l == advanceMonthsFrom(tmp, indexOf(monthMap, tmp.month), 0, months)
    IN  [l.temporal EXCEPT
            !.month = monthMap[l.currentMonthIndex + 1],
            !.season = seasonMap[l.currentMonthIndex + 1]]

RECURSIVE advanceDaysWhile(_)
\* the while loop of advanceDays
advanceDaysWhile(tmp) ==
    IF tmp.day > 30
    THEN advanceDaysWhile(advanceMonths([tmp EXCEPT !.day = @ - 30], 1))
    ELSE tmp

\* advanceDays(days)
advanceDays(tmp, days) ==
    advanceDaysWhile([tmp EXCEPT !.day = @ + days])

RECURSIVE advanceHoursFrom(_, _, _, _)
\* the loop of advanceHours from its i-th turn on
advanceHoursFrom(tmp, currentIndex, i, hours) ==
    IF i >= hours
    THEN [temporal |-> tmp, currentIndex |-> currentIndex]
    ELSE LET next == (currentIndex + 1) % Len(timeOfDayMap)
         IN  advanceHoursFrom(IF next = 0 THEN advanceDays(tmp, 1) ELSE tmp,
                              next, i + 1, hours)

\* advanceHours with no new day after the last slot
advanceHoursSameDay(tmp, hours) ==
    [tmp EXCEPT !.timeOfDay =
        timeOfDayMap[((indexOf(timeOfDayMap, @) + hours)
                          % Len(timeOfDayMap)) + 1]]

\* advanceHours(hours)
advanceHours(tmp, hours) ==
    LET l == advanceHoursFrom(tmp, indexOf(timeOfDayMap, tmp.timeOfDay), 0,
                              hours)
    IN  [l.temporal EXCEPT !.timeOfDay = timeOfDayMap[l.currentIndex + 1]]

RECURSIVE filterScheduled(_, _, _, _)
\* the filter of processTimeBasedEvents from the n-th scheduled event on:
\* a scheduled event whose trigger time has come is added and dropped
filterScheduled(evs, changes, n, t) ==
    IF n > Len(evs.scheduled)
    THEN [events |-> [evs EXCEPT !.scheduled = <<>>],
          worldChanges |-> changes, kept |-> <<>>]
    ELSE LET scheduledEvent == evs.scheduled[n]
             due == TimeOf(scheduledEvent.triggerTime) <= t
             a == addEvent(evs, changes, scheduledEvent.eventData)
             rest == IF due
                     THEN filterScheduled(a.events, a.worldChanges, n + 1, t)
                     ELSE filterScheduled(evs, changes, n + 1, t)
         IN  [rest EXCEPT !.kept = IF due THEN @
                                   ELSE <<scheduledEvent>> \o @]

RECURSIVE forEachCurrent(_, _, _, _, _)
\* events.current.forEach(...) from index k (from 0) on, of the len indices
\* the array had when forEach began: forEach visits index k of the array as
\* it is by then, and an index the array no longer has is passed over
forEachCurrent(evs, changes, k, len, t) ==
    IF k >= len \/ k >= Len(evs.current)
    THEN [events |-> evs, worldChanges |-> changes]
    ELSE LET event == evs.current[k + 1]
         IN  IF /\ event.duration = "temporary"
                /\ Truthy(event.endTime)
                /\ TimeOf(event.endTime) <= t
             THEN LET c == completeEvent(evs, changes, event.id, TRUE, t)
                  IN  forEachCurrent(c.events, c.worldChanges, k + 1, len, t)
             ELSE forEachCurrent(evs, changes, k + 1, len, t)

\* processTimeBasedEvents() at instant t
processTimeBasedEvents(evs, changes, t) ==
    LET f == filterScheduled(evs, changes, 1, t)
        filtered == [f.events EXCEPT !.scheduled = f.kept]
    IN  forEachCurrent(filtered, f.worldChanges, 0, Len(filtered.current), t)

\* the units advanceTime knows
TimeUnits ==
    {"hour", "day", "month", "year"}

\* advanceTime(amount, unit) at instant t: the error it throws, if any, and
\* the clock, the events and the history it leaves
advanceTime(tmp, evs, changes, amount, unit, t) ==
    IF unit \notin TimeUnits
    THEN [threw |-> "Unknown time unit", temporal |-> tmp, events |-> evs,
          worldChanges |-> changes]
    ELSE LET newTime == CASE unit = "hour" -> advanceHours(tmp, amount)
                          [] unit = "day" -> advanceDays(tmp, amount)
                          [] unit = "month" -> advanceMonths(tmp, amount)
                          [] unit = "year" -> advanceYears(tmp, amount)
             recorded == recordWorldChange(changes,
                             [type |-> "time_advancement", oldTime |-> tmp,
                              newTime |-> newTime, amount |-> amount,
                              unit |-> unit])
             p == processTimeBasedEvents(evs, recorded, t)
         IN  [threw |-> None, temporal |-> newTime, events |-> p.events,
              worldChanges |-> p.worldChanges]

\* analyzeWorldState(): the four readings and the numbers of concerns and
\* opportunities
analyzeWorldState(params) ==
    LET unstable == params[politicalStability] < 30
        highTension == params[tension] > 70
        poor == params[economicState] < 30
        excellent == params[economicState] > 70
        active == params[magicalActivity] > 70
        count(b) == IF b THEN 1 ELSE 0
    IN  [stability |-> IF unstable THEN "unstable"
                       ELSE IF params[politicalStability] < 60
                       THEN "fragile" ELSE "stable",
         tension |-> IF highTension THEN "high"
                     ELSE IF params[tension] > 40 THEN "moderate" ELSE "low",
         economicHealth |-> IF poor THEN "poor"
                            ELSE IF excellent THEN "excellent" ELSE "good",
         magicalClimate |-> IF active THEN "highly active"
                            ELSE IF params[magicalActivity] < 20
                            THEN "dormant" ELSE "normal",
         concerns |-> count(unstable) + count(highTension) + count(poor),
         opportunities |-> count(excellent) + count(active)]

\* the size the rumor mill is trimmed to
RumorLimit ==
    15

\* the size the news list is trimmed to
NewsLimit ==
    20

\* addRumor(rumor)
addRumor(info, rumor) ==
    [info EXCEPT !.rumorMill = SliceLast(Append(@, rumor), RumorLimit)]

\* addNews with the list trimmed from the wrong end
addNewsOldest(info, newsItem) ==
    [info EXCEPT !.news = SliceLast(<<newsItem>> \o @, NewsLimit)]

\* addNews(newsItem): unshift, then slice(0, 20)
addNews(info, newsItem) ==
    [info EXCEPT !.news =
        LET n == <<newsItem>> \o @
        IN  IF Len(n) > NewsLimit THEN SubSeq(n, 1, NewsLimit) ELSE n]

-----------------------------------------------------------------------------
(* ValidationSystem.  No custom validator is registered, and a proposal    *)
(* carries none of age, influence, territory, allies, safety, population,  *)
(* value, weight and durability, so the checks of those fields are skipped *)
(* as the code skips them for an undefined field.                          *)

\* the NPCs whose location is loc
locationNPCs(ents, loc) ==
    {i \in DOMAIN ents["npc"] : ents["npc"][i].location = loc}

\* validateNPCCreation with the capacity compared by > instead of >=
validateNPCCreationOffByOne(npcData, S) ==
    IF Truthy(npcData.location)
       /\ Cardinality(locationNPCs(S.entities, npcData.location))
              > MAX_NPCS_PER_LOCATION
    THEN [valid |-> FALSE, warnings |-> <<"capacity">>]
    ELSE [valid |-> TRUE, warnings |-> <<>>]

\* validateNPCCreation(npcData, gameState)
validateNPCCreation(npcData, S) ==
    IF Truthy(npcData.location)
       /\ Cardinality(locationNPCs(S.entities, npcData.location))
              >= MAX_NPCS_PER_LOCATION
    THEN [valid |-> FALSE, warnings |-> <<"capacity">>]
    ELSE [valid |-> TRUE,
          warnings |->
              IF \E i \in DOMAIN S.entities["npc"] :
                     S.entities["npc"][i].name = npcData.name
              THEN <<"name exists">>
              ELSE <<>>]

\* validateFactionCreation(factionData, gameState)
validateFactionCreation(factionData, S) ==
    [valid |-> TRUE,
     warnings |->
         IF \E i \in DOMAIN S.entities["faction"] :
                S.entities["faction"][i].name = factionData.name
         THEN <<"name exists">>
         ELSE <<>>]

\* validateLocationCreation(locationData, gameState)
validateLocationCreation(locationData, S) ==
    [valid |-> TRUE,
     warnings |->
         SelectSeq(locationData.connectedTo,
                   LAMBDA c : c \notin DOMAIN S.entities["location"])]

\* validateItemCreation(itemData, gameState)
validateItemCreation(itemData, S) ==
    [valid |-> TRUE,
     warnings |->
         IF Truthy(itemData.location)
            /\ itemData.location \notin {"player_inventory", "world"}
            /\ itemData.location \notin DOMAIN S.entities["location"]
         THEN <<"location missing">>
         ELSE <<>>]

\* validateEventCreation with the limit compared by > instead of >=
validateEventCreationOffByOne(eventData, S) ==
    IF Len(S.events.current) > MAX_ACTIVE_EVENTS
    THEN [valid |-> FALSE, warnings |-> <<"active events">>]
    ELSE [valid |-> TRUE, warnings |-> <<>>]

\* validateEventCreation(eventData, gameState)
validateEventCreation(eventData, S) ==
    IF Len(S.events.current) >= MAX_ACTIVE_EVENTS
    THEN [valid |-> FALSE, warnings |-> <<"active events">>]
    ELSE [valid |-> TRUE, warnings |-> <<>>]

-----------------------------------------------------------------------------
(* ValidationSystem.validateGameStateIntegrity.  An error is kept as what   *)
(* it is about: the holder of a reference, the place of the reference in   *)
(* the holder's list, and the id referred to.                              *)

\* gameState.entities[kind] || {}
EntitiesOf(gameState, kind) ==
    IF kind \in DOMAIN gameState.entities
    THEN gameState.entities[kind]
    ELSE EmptyMap

\* checkOrphanedReferences(gameState, integrity): the errors it pushes
checkOrphanedReferences(gameState) ==
    LET npcs == EntitiesOf(gameState, "npc")
        factions == EntitiesOf(gameState, "faction")
        locations == EntitiesOf(gameState, "location")
    IN  {<<"npc", npcId, 1, npcs[npcId].location>> :
            npcId \in {i \in DOMAIN npcs :
                          /\ Truthy(npcs[i].location)
                          /\ npcs[i].location \notin DOMAIN locations}}
        \cup
        UNION {{<<"faction", factionId, k,
                  factions[factionId].leadership[k]>> :
                   k \in {j \in DOMAIN factions[factionId].leadership :
                             factions[factionId].leadership[j]
                                 \notin DOMAIN npcs}} :
               factionId \in DOMAIN factions}
        \cup
        UNION {{<<"location", locationId, k,
                  locations[locationId].connectedTo[k]>> :
                   k \in {j \in DOMAIN locations[locationId].connectedTo :
                             locations[locationId].connectedTo[j]
                                 \notin DOMAIN locations}} :
               locationId \in DOMAIN locations}

\* checkWorldParameterBounds(gameState, integrity): the errors it pushes
checkWorldParameterBounds(gameState) ==
    LET params == gameState.worldState.globalParameters
    IN  {<<"parameter", param, 1, params[param]>> :
            param \in {p \in DOMAIN params :
                          params[p] < 0 \/ params[p] > 100}}

\* validateGameStateIntegrity(gameState): valid is set to true and never
\* written again
validateGameStateIntegrity(gameState) ==
    [valid |-> TRUE,
     errors |-> checkOrphanedReferences(gameState)
                \cup checkWorldParameterBounds(gameState),
     warnings |-> {}]

-----------------------------------------------------------------------------
(* systems/CreationSystem.js *)

\* the stores as the pipeline sees them (getGameState)
Store ==
    [entities |-> entities, creationHistory |-> creationHistory,
     relationships |-> relationships, playerStandings |-> playerStandings,
     relationshipHistory |-> relationshipHistory,
     globalParameters |-> globalParameters, worldChanges |-> worldChanges,
     events |-> events, information |-> information]

\* the stores become S
SetStore(S) ==
    /\ entities' = S.entities
    /\ creationHistory' = S.creationHistory
    /\ relationships' = S.relationships
    /\ playerStandings' = S.playerStandings
    /\ relationshipHistory' = S.relationshipHistory
    /\ globalParameters' = S.globalParameters
    /\ worldChanges' = S.worldChanges
    /\ events' = S.events
    /\ information' = S.information

\* getPlayerState().currentLocation
PlayerLocation ==
    "village_square"

\* the results object createEntitiesFromDetection starts with
EmptyResults ==
    [created |-> [k \in Kinds |-> <<>>], failed |-> [k \in Kinds |-> <<>>],
     warnings |-> <<>>]

Tagged(kind, seq) ==
    [i \in 1..Len(seq) |-> [kind |-> kind, data |-> seq[i]]]

\* the proposals of a detection in the order the five loops visit them
Items(detection) ==
    Tagged("npc", detection.entities.npcs)
    \o Tagged("faction", detection.entities.factions)
    \o Tagged("location", detection.entities.locations)
    \o Tagged("item", detection.entities.items)
    \o Tagged("event", detection.entities.events)

\* the validate<Kind>Creation call of each loop
Validate(item, S) ==
    CASE item.kind = "npc" -> validateNPCCreation(item.data, S)
      [] item.kind = "faction" -> validateFactionCreation(item.data, S)
      [] item.kind = "location" -> validateLocationCreation(item.data, S)
      [] item.kind = "item" -> validateItemCreation(item.data, S)
      [] item.kind = "event" -> validateEventCreation(item.data, S)

\* validation.reason: the validators return {valid, warnings, requirements}
ReasonOf(v) ==
    IF "reason" \in DOMAIN v THEN v.reason ELSE Undefined

\* areLocationsConnectable(loc1, loc2)
areLocationsConnectable(loc1, loc2) ==
    LET compatibleTypes ==
            ("settlement" :> {"settlement", "structure", "landmark"})
            @@ ("wilderness" :> {"wilderness", "settlement", "landmark"})
            @@ ("structure" :> {"settlement", "structure"})
            @@ ("landmark" :> {"settlement", "wilderness"})
            @@ ("dungeon" :> {"wilderness", "structure"})
    IN  /\ loc1.type \in DOMAIN compatibleTypes
        /\ loc2.type \in compatibleTypes[loc1.type]

RECURSIVE KeysFrom(_, _, _)
\* the ids of hist from position n on that are keys of obj, each at the place
\* of its last creation
KeysFrom(obj, hist, n) ==
    IF n > Len(hist)
    THEN <<>>
    ELSE IF hist[n].id \in DOMAIN obj
            /\ \A m \in (n + 1)..Len(hist) : hist[m].id # hist[n].id
         THEN <<hist[n].id>> \o KeysFrom(obj, hist, n + 1)
         ELSE KeysFrom(obj, hist, n + 1)

\* Object.keys(entities[type]): the keys in insertion order
KeysInOrder(ents, hist, type) ==
    KeysFrom(ents[type], hist[type], 1)

\* autoConnectLocation(location): the location map it leaves
autoConnectLocation(ents, hist, id) ==
    LET locs == ents["location"]
        order == KeysInOrder(ents, hist, "location")
        first ==
            IF id # PlayerLocation
               /\ PlayerLocation \in DOMAIN locs
               /\ areLocationsConnectable(locs[id], locs[PlayerLocation])
            THEN [locs EXCEPT
                    ![id].connectedTo = Append(@, PlayerLocation),
                    ![PlayerLocation].connectedTo = Append(@, id)]
            ELSE locs
        candidates ==
            SelectSeq(order,
                LAMBDA o : /\ o # id
                           /\ Len(first[id].connectedTo) < 3
                           /\ areLocationsConnectable(first[id], first[o]))
    IN  IF candidates = <<>>
        THEN first
        ELSE [first EXCEPT
                ![id].connectedTo = Append(@, candidates[1]),
                ![candidates[1]].connectedTo = Append(@, id)]

\* what one pass of a loop body of createEntitiesFromDetection does with the
\* proposal item, once its validation v has been awaited: the stores and the
\* results object it leaves
CommitItem(S, res, item, v) ==
    LET k == item.kind
        d == item.data
        rejected ==
            [S |-> S,
             results |->
                 [res EXCEPT
                    !.failed[k] = Append(@, [data |-> d, reason |-> ReasonOf(v)]),
                    !.warnings = Append(@, [kind |-> k, id |-> d.id,
                                            reason |-> ReasonOf(v)])]]
    IN  IF ~v.valid
        THEN rejected
        ELSE IF k = "event"
        THEN LET a == addEvent(S.events, S.worldChanges, d)
             IN  [S |-> [S EXCEPT !.events = a.events,
                                  !.worldChanges = a.worldChanges],
                  results |-> [res EXCEPT !.created[k] = Append(@, d.id)]]
        ELSE LET c == createEntity(S.entities, S.creationHistory, k, d.id, d)
             IN  IF c.threw # None
                 THEN [S |-> S,
                       results |->
                           [res EXCEPT !.failed[k] =
                               Append(@, [data |-> d, reason |-> c.threw])]]
                 ELSE LET S1 == [S EXCEPT
                                   !.entities = c.entities,
                                   !.creationHistory = c.creationHistory]
                          S2 == CASE k = "faction" ->
                                       [S1 EXCEPT !.playerStandings =
                                           setPlayerStanding(@, d.id, 0)]
                                  [] k = "location"
                                       /\ Len(c.entities[k][d.id].connectedTo) = 0 ->
                                       [S1 EXCEPT !.entities["location"] =
                                           autoConnectLocation(c.entities,
                                               c.creationHistory, d.id)]
                                  [] OTHER -> S1
                      IN  [S |-> S2,
                           results |->
                               [res EXCEPT !.created[k] = Append(@, d.id)]]

\* findEntity(entityId), as whether it finds one
findEntity(ents, entityId) ==
    \E i \in DOMAIN ENTITY_TYPES : entityId \in DOMAIN ents[ENTITY_TYPES[i]]

RECURSIVE processRelationshipsFrom(_, _, _)
processRelationshipsFrom(S, rels, n) ==
    IF n > Len(rels)
    THEN S
    ELSE LET rel == rels[n]
             S1 == IF findEntity(S.entities, rel.entity1)
                      /\ findEntity(S.entities, rel.entity2)
                   THEN LET r == setRelationship(S.relationships,
                                     S.relationshipHistory,
                                     rel.entity1, rel.entity2, rel)
                        IN  [S EXCEPT
                               !.relationships = r.relationships,
                               !.relationshipHistory = r.relationshipHistory]
                   ELSE S
         IN  processRelationshipsFrom(S1, rels, n + 1)

\* processRelationships(relationships): the stores it leaves
processRelationships(S, rels) ==
    processRelationshipsFrom(S, rels, 1)

\* the parameters applyWorldUpdates visits, in its order
UpdateOrder ==
    <<tension, politicalStability, economicState, magicalActivity>>

RECURSIVE applyParametersFrom(_, _, _)
\* lines 196-210: stops at the first updateGlobalParameter that throws
applyParametersFrom(S, updates, n) ==
    IF n > Len(UpdateOrder)
    THEN [threw |-> None, S |-> S]
    ELSE IF updates.parameters[n] = 0
    THEN applyParametersFrom(S, updates, n + 1)
    ELSE LET u == updateGlobalParameter(S.globalParameters, S.worldChanges,
                      UpdateOrder[n], updates.parameters[n])
         IN  IF u.threw # None
             THEN [threw |-> u.threw, S |-> S]
             ELSE applyParametersFrom(
                      [S EXCEPT !.globalParameters = u.globalParameters,
                                !.worldChanges = u.worldChanges],
                      updates, n + 1)

RECURSIVE addRumorsFrom(_, _, _)
\* line 213: updates.rumors.forEach(rumor => this.worldState.addRumor(rumor))
addRumorsFrom(info, rumors, n) ==
    IF n > Len(rumors)
    THEN info
    ELSE addRumorsFrom(addRumor(info, rumors[n]), rumors, n + 1)

RECURSIVE addNewsFrom(_, _, _)
\* line 217: updates.news.forEach(newsItem => this.worldState.addNews(newsItem))
addNewsFrom(info, news, n) ==
    IF n > Len(news)
    THEN info
    ELSE addNewsFrom(addNews(info, news[n]), news, n + 1)

\* applyWorldUpdates(updates): the error it throws, if any, and the stores
\* it leaves
applyWorldUpdates(S, updates) ==
    LET p == applyParametersFrom(S, updates, 1)
    IN  IF p.threw # None
        THEN p
        ELSE [threw |-> None,
              S |-> [p.S EXCEPT !.information =
                        addNewsFrom(addRumorsFrom(@, updates.rumors, 1),
                                    updates.news, 1)]]

-----------------------------------------------------------------------------
(* Detection payloads *)

NoUpdates ==
    [parameters |-> <<0, 0, 0, 0>>, rumors |-> <<>>, news |-> <<>>]

NoEntities ==
    [npcs |-> <<>>, factions |-> <<>>, locations |-> <<>>, items |-> <<>>,
     events |-> <<>>]

\* the empty payload of AIInterface.parseEntityDetectionResponse
EmptyPayload ==
    [entities |-> NoEntities, relationships |-> <<>>,
     worldUpdates |-> NoUpdates]

\* a relationship from the proposed entity a to the village elder
RelFromA ==
    [entity1 |-> "a", entity2 |-> "village_elder", type |-> "ally",
     strength |-> 80, reason |-> "met"]

\* a relationship from b, an id only a proposed NPC has, to the council
RelFromB ==
    [entity1 |-> "b", entity2 |-> "village_council", type |-> "enemy",
     strength |-> 60, reason |-> "feud"]

\* proposed NPCs for the village square
NpcChoices ==
    {Data(i, i, Undefined, "village_square") : i \in {"a", "b"}}

\* two NPCs proposed for the village square in either order, or one for the
\* forest together with a relationship from it
NpcPayloads ==
    {[EmptyPayload EXCEPT !.entities.npcs = p] :
        p \in {q \in NpcChoices \X NpcChoices : q[1] # q[2]}}
    \cup {[EmptyPayload EXCEPT
             !.entities.npcs = <<Data("a", "a", Undefined, "forest")>>,
             !.relationships = <<RelFromA>>]}

\* one proposed entity of another kind and a relationship from it
KindPayloads ==
    {[EmptyPayload EXCEPT
        !.entities = [NoEntities EXCEPT
                        ![f] = <<Data("a", "a", Undefined, Undefined)>>],
        !.relationships = <<RelFromA>>] :
        f \in {"factions", "locations", "items", "events"}}

\* a relationship between ids that may or may not exist
RelationshipPayloads ==
    {[EmptyPayload EXCEPT !.relationships = <<RelFromB>>]}

\* world updates: a parameter delta, or a rumor and a news item
UpdatePayloads ==
    {[EmptyPayload EXCEPT !.worldUpdates = u] :
        u \in {[NoUpdates EXCEPT !.parameters = <<5, 0, 0, 0>>],
               [NoUpdates EXCEPT !.rumors = <<"r">>, !.news = <<"n">>]}}

Payloads ==
    {EmptyPayload} \cup NpcPayloads \cup KindPayloads
    \cup RelationshipPayloads \cup UpdatePayloads

-----------------------------------------------------------------------------
(* Initial state *)

TownsfolkOrder ==
    [i \in 1..Townsfolk |-> "t" \o ToString(i)]

StartingHistory ==
    [EmptyHistory EXCEPT
       !["npc"] =
           [i \in 1..(Townsfolk + 1) |->
               LET id == IF i = 1 THEN "village_elder"
                         ELSE TownsfolkOrder[i - 1]
               IN  [id |-> id,
                    data |-> Data(id, id, Undefined, "village_square")]],
       !["faction"] =
           <<[id |-> "village_council",
              data |-> Data("village_council", "village_council",
                            "political", Undefined)]>>,
       !["location"] =
           <<[id |-> "village_square",
              data |-> Data("village_square", "village_square",
                            "settlement", Undefined)]>>,
       !["item"] =
           <<[id |-> "rusty_sword",
              data |-> Data("rusty_sword", "rusty_sword", "weapon",
                            "player_inventory")]>>]

NoDetection ==
    [batch |-> 0] @@ EmptyPayload

\* the player, story context and metadata of new StoryEngine(apiKey)
NewPlayer ==
    [name |-> "Traveler", level |-> 1]

NewStoryContext ==
    [currentScene |-> "introduction"]

NewMeta ==
    [version |-> "2.0", choiceCount |-> 0, lastSave |-> Null]

\* an idle pipeline, the player and the metadata of a new engine, and no call
\* made yet
InitCalls ==
    /\ processingLock = FALSE
    /\ creationQueue = <<>>
    /\ pc = "idle"
    /\ cur = NoDetection
    /\ idx = 1
    /\ validation = NoValidation
    /\ results = EmptyResults
    /\ firstResults = EmptyResults
    /\ threw = None
    /\ ret = [op |-> "none"]
    /\ submitted = 0
    /\ before = {}
    /\ finished = {}
    /\ calls = 0
    /\ player = NewPlayer
    /\ storyContext = NewStoryContext
    /\ meta = NewMeta
    /\ temporal = NewTemporal
    /\ now = 1

\* everything but the graph: the engine after initializeStartingWorld
InitOther ==
    /\ entities = StartingEntities
    /\ creationHistory = StartingHistory
    /\ playerStandings = setPlayerStanding(EmptyMap, "village_council", 10)
    /\ globalParameters = DefaultParameters
    /\ worldChanges = <<>>
    /\ events = [current |-> <<>>, completed |-> <<>>, failed |-> <<>>,
                 scheduled |-> <<>>]
    /\ information = [rumorMill |-> <<>>, news |-> <<>>]
    /\ InitCalls

Init ==
    /\ InitOther
    /\ relationships = EmptyMap
    /\ relationshipHistory = <<>>

-----------------------------------------------------------------------------
(* CreationSystem.processEntityCreation.  The call that holds the lock     *)
(* runs from one await to the next; pc names the line of the await it is   *)
(* suspended at.                                                           *)

\* createEntitiesFromDetection(detection) up to its first await: the first
\* validation is evaluated, or the function returns at once
StartCreation(detection, S, line) ==
    /\ cur' = detection
    /\ idx' = 1
    /\ results' = EmptyResults
    /\ validation' = IF Items(detection) = <<>>
                     THEN NoValidation
                     ELSE Validate(Items(detection)[1], S)
    /\ pc' = line

\* the queue after the running call took its next payload: shift()
Shift(queue) ==
    Tail(queue)

\* the next payload taken from the wrong end of the queue: pop()
NextQueuedLast(queue) ==
    queue[Len(queue)]

\* the payload the running call takes next
NextQueued(queue) ==
    Head(queue)

\* the queue without the payload NextQueued takes
RestQueued(queue) ==
    IF NextQueued(queue) = Head(queue)
    THEN Shift(queue)
    ELSE SubSeq(queue, 1, Len(queue) - 1)

\* the test of line 15 left out: no call ever finds the pipeline Processing
IsProcessingNever(lock) ==
    FALSE

\* line 15: if (this.processingLock)
IsProcessing(lock) ==
    lock

\* lines 14-23: a call of processEntityCreation(detectionResult)
ProcessEntityCreation(payload) ==
    /\ submitted < MaxBatches
    /\ submitted' = submitted + 1
    /\ LET detection == [batch |-> submitted + 1] @@ payload
       IN  IF IsProcessing(processingLock)
           THEN /\ creationQueue' = Append(creationQueue, detection)
                /\ ret' = [op |-> "processEntityCreation",
                           batch |-> detection.batch, result |-> "queued"]
                /\ before' = before
                       \cup {<<cur.batch, detection.batch>>}
                       \cup {<<creationQueue[i].batch, detection.batch>> :
                               i \in DOMAIN creationQueue}
                /\ UNCHANGED <<engineVars,
                               storeVars, processingLock, pc, cur, idx,
                               validation, results, firstResults, threw,
                               finished, calls>>
           ELSE /\ processingLock' = TRUE
                /\ StartCreation(detection, Store, "line23")
                /\ UNCHANGED <<engineVars,
                               storeVars, creationQueue, firstResults, threw,
                               ret, before, finished, calls>>

\* lines 52-165: the awaited validation of proposal idx arrives; the
\* proposal is committed or rejected and the next validation is evaluated
CreateStep ==
    /\ pc \in {"line23", "line30"}
    /\ idx <= Len(Items(cur))
    /\ LET c == CommitItem(Store, results, Items(cur)[idx], validation)
       IN  /\ SetStore(c.S)
           /\ results' = c.results
           /\ idx' = idx + 1
           /\ validation' = IF idx + 1 <= Len(Items(cur))
                            THEN Validate(Items(cur)[idx + 1], c.S)
                            ELSE NoValidation
    /\ UNCHANGED <<engineVars,
                   processingLock, creationQueue, pc, cur, firstResults,
                   threw, ret, submitted, before, finished, calls>>

\* lines 23-24: createEntitiesFromDetection has returned; the relationships
\* of the payload are processed
ResumeLine23 ==
    /\ pc = "line23"
    /\ idx > Len(Items(cur))
    /\ firstResults' = results
    /\ SetStore(processRelationships(Store, cur.relationships))
    /\ pc' = "line24"
    /\ UNCHANGED <<engineVars,
                   processingLock, creationQueue, cur, idx, validation,
                   results, threw, ret, submitted, before, finished, calls>>

\* line 25: the world updates of the payload are applied
ResumeLine24 ==
    /\ pc = "line24"
    /\ LET a == applyWorldUpdates(Store, cur.worldUpdates)
       IN  /\ SetStore(a.S)
           /\ threw' = a.threw
    /\ pc' = "line25"
    /\ UNCHANGED <<engineVars,
                   processingLock, creationQueue, cur, idx, validation,
                   results, firstResults, ret, submitted, before, finished,
                   calls>>

\* lines 28-35: the loop over the queue takes the next payload, or the call
\* returns the results of line 23 and releases the lock
DrainOrReturn ==
    IF creationQueue # <<>>
    THEN /\ StartCreation(NextQueued(creationQueue), Store, "line30")
         /\ creationQueue' = RestQueued(creationQueue)
         /\ UNCHANGED <<processingLock, ret>>
    ELSE /\ processingLock' = FALSE
         /\ pc' = "idle"
         /\ ret' = [op |-> "processEntityCreation", batch |-> cur.batch,
                    result |-> "returned", value |-> firstResults]
         /\ UNCHANGED <<creationQueue, cur, idx, validation, results>>

\* line 25 resumes without a finally block: an error keeps the lock
ResumeLine25NoFinally ==
    /\ pc = "line25"
    /\ finished' = finished \cup {cur.batch}
    /\ threw' = None
    /\ IF threw # None
       THEN /\ pc' = "idle"
            /\ ret' = [op |-> "processEntityCreation", batch |-> cur.batch,
                       result |-> "threw", error |-> threw]
            /\ UNCHANGED <<processingLock, creationQueue, cur, idx,
                           validation, results>>
       ELSE DrainOrReturn
    /\ UNCHANGED <<engineVars,
                   storeVars, firstResults, submitted, before, calls>>

\* line 25 resumes: an error of applyWorldUpdates leaves through the finally
\* block; otherwise the queue is worked off
ResumeLine25 ==
    /\ pc = "line25"
    /\ finished' = finished \cup {cur.batch}
    /\ threw' = None
    /\ IF threw # None
       THEN /\ processingLock' = FALSE
            /\ pc' = "idle"
            /\ ret' = [op |-> "processEntityCreation", batch |-> cur.batch,
                       result |-> "threw", error |-> threw]
            /\ UNCHANGED <<creationQueue, cur, idx, validation, results>>
       ELSE DrainOrReturn
    /\ UNCHANGED <<engineVars,
                   storeVars, firstResults, submitted, before, calls>>

\* line 30 resumes: createEntitiesFromDetection of a queued payload has
\* returned
ResumeLine30 ==
    /\ pc = "line30"
    /\ idx > Len(Items(cur))
    /\ finished' = finished \cup {cur.batch}
    /\ DrainOrReturn
    /\ UNCHANGED <<engineVars,
                   storeVars, firstResults, threw, submitted, before, calls>>

Submit ==
    \E payload \in Payloads : ProcessEntityCreation(payload)

Next ==
    \/ Submit
    \/ CreateStep
    \/ ResumeLine23
    \/ ResumeLine24
    \/ ResumeLine25
    \/ ResumeLine30

Spec ==
    Init /\ [][Next]_vars

-----------------------------------------------------------------------------
(* The pipeline in a world that has events going on *)

\* the world state after n events were added to the starting world
RECURSIVE eventsAfter(_)
eventsAfter(n) ==
    IF n = 0
    THEN [events |-> [current |-> <<>>, completed |-> <<>>, failed |-> <<>>,
                      scheduled |-> <<>>],
          worldChanges |-> <<>>]
    ELSE LET w == eventsAfter(n - 1)
             id == "e" \o ToString(n)
         IN  addEvent(w.events, w.worldChanges,
                      Data(id, id, Undefined, Undefined))

InitEvents ==
    /\ entities = StartingEntities
    /\ creationHistory = StartingHistory
    /\ relationships = EmptyMap
    /\ relationshipHistory = <<>>
    /\ playerStandings = setPlayerStanding(EmptyMap, "village_council", 10)
    /\ globalParameters = DefaultParameters
    /\ events = eventsAfter(StartingEvents).events
    /\ worldChanges = eventsAfter(StartingEvents).worldChanges
    /\ information = [rumorMill |-> <<>>, news |-> <<>>]
    /\ InitCalls

\* batches that propose one event, two events, or an NPC and an event
EventPayloads ==
    {[EmptyPayload EXCEPT
        !.entities = [NoEntities EXCEPT !.events = evs, !.npcs = npcs]] :
        evs \in {<<Data("a", "a", Undefined, Undefined)>>,
                 <<Data("a", "a", Undefined, Undefined),
                   Data("b", "b", Undefined, Undefined)>>},
        npcs \in {<<>>, <<Data("a", "a", Undefined, "forest")>>}}

SubmitEvents ==
    \E payload \in EventPayloads : ProcessEntityCreation(payload)

NextEvents ==
    \/ SubmitEvents
    \/ CreateStep
    \/ ResumeLine23
    \/ ResumeLine24
    \/ ResumeLine25
    \/ ResumeLine30

SpecEvents ==
    InitEvents /\ [][NextEvents]_vars

-----------------------------------------------------------------------------
(* AIInterface.detectEntities in front of the pipeline.  A reply of the     *)
(* model is described by what the code asks of it: whether the call         *)
(* failed, whether the text has a {...} span (jsonMatch), whether           *)
(* JSON.parse accepts that span (valid), and the object the span spells out *)
(* (value).                                                                 *)

\* the payloads the replies spell out
DetectedPayloads ==
    {EmptyPayload} \cup NpcPayloads \cup UpdatePayloads

\* what comes back from the model: a failed call, text without a {...} span,
\* a span JSON.parse refuses, or a JSON object
Replies ==
    {[kind |-> k[1], failed |-> k[2], jsonMatch |-> k[3], valid |-> k[4],
      value |-> v] :
        k \in {<<"failed", TRUE, FALSE, FALSE>>,
               <<"text", FALSE, FALSE, FALSE>>,
               <<"malformed", FALSE, TRUE, FALSE>>},
        v \in UpdatePayloads}
    \cup {[kind |-> "json", failed |-> FALSE, jsonMatch |-> TRUE,
           valid |-> TRUE, value |-> v] : v \in DetectedPayloads}

\* parseEntityDetectionResponse that returns what the span spells out
\* whether or not JSON.parse accepts it
parseEntityDetectionResponseRaw(response) ==
    response.value

\* parseEntityDetectionResponse(response)
parseEntityDetectionResponse(response) ==
    IF response.jsonMatch /\ response.valid
    THEN response.value
    ELSE EmptyPayload

\* detectEntities(playerInput, narrative, worldState), given the reply
detectEntities(reply) ==
    IF reply.failed
    THEN EmptyPayload
    ELSE parseEntityDetectionResponse(reply)

\* processPlayerChoice: the detection result of a reply is handed to the
\* pipeline; reply records the kind of reply it came from
SubmitDetected ==
    \E reply \in Replies :
        ProcessEntityCreation([reply |-> reply.kind] @@ detectEntities(reply))

NextDetect ==
    \/ SubmitDetected
    \/ CreateStep
    \/ ResumeLine23
    \/ ResumeLine24
    \/ ResumeLine25
    \/ ResumeLine30

SpecDetect ==
    Init /\ [][NextDetect]_vars

-----------------------------------------------------------------------------
(* Direct calls to the Entity Store *)

\* what a caller passes as data: two different records for the same id
CallerData(id) ==
    {Data(id, n, Undefined, Undefined) : n \in {"x", "y"}}

\* a call of EntityManager.createEntity(type, id, data)
CreateEntity(type, id, data) ==
    /\ calls < MaxCalls
    /\ calls' = calls + 1
    /\ LET c == createEntity(entities, creationHistory, type, id, data)
       IN  /\ entities' = c.entities
           /\ creationHistory' = c.creationHistory
           /\ ret' = [op |-> "createEntity", type |-> type, id |-> id,
                      data |-> data, threw |-> c.threw]
    /\ UNCHANGED <<engineVars, graphVars, worldVars, pipelineVars>>

NextStore ==
    \E type \in Kinds, id \in {"a", "b"} :
        \E data \in CallerData(id) : CreateEntity(type, id, data)

SpecStore ==
    Init /\ [][NextStore]_vars

-----------------------------------------------------------------------------
(* Direct calls to the Entity Store: update and delete *)

\* the kinds and ids the update and delete calls explored name
EditedKinds ==
    {"npc", "item"}

EditedIds ==
    {"a", "village_elder"}

\* a call of updateEntity(type, id, {name})
UpdateEntity(type, id, name) ==
    /\ calls < MaxCalls
    /\ calls' = calls + 1
    /\ LET u == updateEntity(entities, type, id, [name |-> name])
       IN  /\ entities' = u.entities
           /\ ret' = [op |-> "updateEntity", checked |-> FALSE,
                      type |-> type, id |-> id, threw |-> u.threw,
                      found |-> u.found]
    /\ UNCHANGED <<engineVars, creationHistory, graphVars, worldVars,
                   pipelineVars>>

\* a call of updateEntity(type, id, {name}) of EntityManager.js.new
UpdateEntityChecked(type, id, name) ==
    /\ calls < MaxCalls
    /\ calls' = calls + 1
    /\ LET u == updateEntityChecked(entities, type, id, [name |-> name])
       IN  /\ entities' = u.entities
           /\ ret' = [op |-> "updateEntity", checked |-> TRUE,
                      type |-> type, id |-> id, threw |-> u.threw,
                      found |-> u.found]
    /\ UNCHANGED <<engineVars, creationHistory, graphVars, worldVars,
                   pipelineVars>>

\* a call of deleteEntity(type, id)
DeleteEntity(type, id) ==
    /\ calls < MaxCalls
    /\ calls' = calls + 1
    /\ LET e == deleteEntity(entities, type, id)
       IN  /\ entities' = e.entities
           /\ ret' = [op |-> "deleteEntity", type |-> type, id |-> id,
                      threw |-> e.threw, value |-> e.value]
    /\ UNCHANGED <<engineVars, creationHistory, graphVars, worldVars,
                   pipelineVars>>

NextEdit ==
    \/ \E type \in EditedKinds :
           CreateEntity(type, "a", Data("a", "x", Undefined, Undefined))
    \/ \E type \in EditedKinds, id \in EditedIds :
           UpdateEntity(type, id, "renamed")
    \/ \E type \in EditedKinds, id \in EditedIds :
           UpdateEntityChecked(type, id, "renamed")
    \/ \E type \in EditedKinds, id \in EditedIds :
           DeleteEntity(type, id)

SpecEdit ==
    Init /\ [][NextEdit]_vars

-----------------------------------------------------------------------------
(* Direct calls to the Entity Store: what a record says of itself *)

\* what callers pass as data to createEntity: with a type, without one
NamedData(id) ==
    {Data(id, "x", t, Undefined) : t \in {Undefined, "hostile"}}

\* what callers pass to updateEntity: a name, an id, a type
Partials ==
    {[name |-> "renamed"], [id |-> "b"], [type |-> "hostile"]}

\* a call of updateEntity(type, id, data)
UpdateEntityWith(type, id, data) ==
    /\ calls < MaxCalls
    /\ calls' = calls + 1
    /\ LET u == updateEntity(entities, type, id, data)
       IN  /\ entities' = u.entities
           /\ ret' = [op |-> "updateEntity", checked |-> FALSE,
                      type |-> type, id |-> id, data |-> data,
                      threw |-> u.threw, found |-> u.found]
    /\ UNCHANGED <<engineVars, creationHistory, graphVars, worldVars,
                   pipelineVars>>

NextIdentity ==
    \/ \E type \in Kinds : \E data \in NamedData("a") :
           CreateEntity(type, "a", data)
    \/ \E type \in Kinds, id \in EditedIds : \E data \in Partials :
           UpdateEntityWith(type, id, data)
    \/ \E type \in Kinds, id \in EditedIds : DeleteEntity(type, id)

SpecIdentity ==
    Init /\ [][NextIdentity]_vars

-----------------------------------------------------------------------------
(* Direct calls to the World Parameter Store *)

\* names of no parameter
UnknownNames ==
    {<<"m", "o", "o", "d">>, <<"x">>}

\* the names callers pass: the four property names, the keys of
\* WORLD_PARAMETERS, and names of no parameter
ParameterNames ==
    {tension, politicalStability, economicState, magicalActivity}
    \cup DOMAIN WORLD_PARAMETERS \cup UnknownNames

Deltas ==
    {-1000, -50, 0, 5, 200, 1000}

\* a call of WorldState.updateGlobalParameter(parameter, change, reason)
UpdateGlobalParameter(parameter, change) ==
    /\ calls < MaxCalls
    /\ calls' = calls + 1
    /\ LET u == updateGlobalParameter(globalParameters, worldChanges,
                                      parameter, change)
       IN  /\ globalParameters' = u.globalParameters
           /\ worldChanges' = u.worldChanges
           /\ ret' = [op |-> "updateGlobalParameter",
                      parameter |-> parameter, change |-> change,
                      threw |-> u.threw, value |-> u.value]
    /\ UNCHANGED <<engineVars,
                   entityVars, graphVars, events, information, pipelineVars>>

NextWorld ==
    \E parameter \in ParameterNames, change \in Deltas :
        UpdateGlobalParameter(parameter, change)

SpecWorld ==
    Init /\ [][NextWorld]_vars

-----------------------------------------------------------------------------
(* Direct calls to the Relationship Graph *)

\* relationshipData as callers pass it
RelData(type, strength) ==
    [type |-> type, strength |-> strength, reason |-> "met"]

\* the setRelationship calls that set a graph up, in their order
SetupRelationships ==
    <<[entity1 |-> "a", entity2 |-> "c", data |-> RelData("ally", 80)],
      [entity1 |-> "c", entity2 |-> "b", data |-> RelData("enemy", 60)],
      [entity1 |-> "a", entity2 |-> "d", data |-> RelData("ally", 40)],
      [entity1 |-> "d", entity2 |-> "b", data |-> RelData("neutral", 50)],
      [entity1 |-> "b", entity2 |-> "a", data |-> RelData("ally", 70)],
      [entity1 |-> "a", entity2 |-> "b", data |-> RelData("enemy", 30)]>>

\* the graph after the first n calls of SetupRelationships
RECURSIVE setUp(_)
setUp(n) ==
    IF n = 0
    THEN [relationships |-> EmptyMap, relationshipHistory |-> <<>>]
    ELSE LET g == setUp(n - 1)
             c == SetupRelationships[n]
         IN  setRelationship(g.relationships, g.relationshipHistory,
                             c.entity1, c.entity2, c.data)

\* an engine whose graph some of the setup calls have filled
InitGraph ==
    /\ InitOther
    /\ \E n \in 0..Len(SetupRelationships) :
           /\ relationships = setUp(n).relationships
           /\ relationshipHistory = setUp(n).relationshipHistory

\* the types callers pass: the three the system uses and one it does not know
TypeNames ==
    {"ally", "enemy", "neutral", "friend"}

Strengths ==
    {-20, 0, 80, 500}

\* the arguments of the setRelationship calls explored
SetArguments ==
    {<<"a", "b", RelData(t, s)>> : t \in TypeNames, s \in Strengths}
    \cup {<<"a", "a", RelData("ally", 80)>>}

\* the arguments of the calls to the validating setRelationship explored
SetValidatedArguments ==
    {<<"a", "b", RelData(t, s)>> :
        t \in {"ally", "[object TRUST]"}, s \in Strengths}
    \cup {<<"a", "a", RelData("[object TRUST]", 80)>>,
          <<"a", "b", RelData("friend", 80)>>}

\* a call of setRelationship(entity1Id, entity2Id, relationshipData)
SetRelationship(entity1Id, entity2Id, relationshipData) ==
    /\ calls < MaxGraphCalls
    /\ calls' = calls + 1
    /\ LET g == setRelationship(relationships, relationshipHistory,
                                entity1Id, entity2Id, relationshipData)
       IN  /\ relationships' = g.relationships
           /\ relationshipHistory' = g.relationshipHistory
           /\ ret' = [op |-> "setRelationship", validating |-> FALSE,
                      entity1 |-> entity1Id, entity2 |-> entity2Id,
                      data |-> relationshipData, threw |-> None,
                      value |-> g.relationships[entity1Id][entity2Id]]
    /\ UNCHANGED <<engineVars,
                   entityVars, playerStandings, worldVars, pipelineVars>>

\* a call of setRelationship of the validating variant
SetRelationshipValidated(entity1Id, entity2Id, relationshipData) ==
    /\ calls < MaxGraphCalls
    /\ calls' = calls + 1
    /\ LET g == setRelationshipValidated(relationships, relationshipHistory,
                                         entity1Id, entity2Id, relationshipData)
       IN  /\ relationships' = g.relationships
           /\ relationshipHistory' = g.relationshipHistory
           /\ ret' = [op |-> "setRelationship", validating |-> TRUE,
                      entity1 |-> entity1Id, entity2 |-> entity2Id,
                      data |-> relationshipData, threw |-> g.threw,
                      value |-> IF g.threw = None
                                THEN g.relationships[entity1Id][entity2Id]
                                ELSE [type |-> Undefined]]
    /\ UNCHANGED <<engineVars,
                   entityVars, playerStandings, worldVars, pipelineVars>>

\* a call of updateRelationship(entity1Id, entity2Id, {strength})
UpdateRelationship(entity1Id, entity2Id, strength) ==
    /\ calls < MaxGraphCalls
    /\ calls' = calls + 1
    /\ LET g == updateRelationship(relationships, relationshipHistory,
                                   entity1Id, entity2Id,
                                   [strength |-> strength])
       IN  /\ relationships' = g.relationships
           /\ relationshipHistory' = g.relationshipHistory
           /\ ret' = [op |-> "updateRelationship", validating |-> FALSE,
                      entity1 |-> entity1Id, entity2 |-> entity2Id,
                      strength |-> strength, threw |-> g.threw]
    /\ UNCHANGED <<engineVars,
                   entityVars, playerStandings, worldVars, pipelineVars>>

\* a call of updateRelationship(entity1Id, entity2Id, {strength}) of the
\* validating variant
UpdateRelationshipValidated(entity1Id, entity2Id, strength) ==
    /\ calls < MaxGraphCalls
    /\ calls' = calls + 1
    /\ LET g == updateRelationshipValidated(relationships, relationshipHistory,
                                            entity1Id, entity2Id,
                                            [strength |-> strength])
       IN  /\ relationships' = g.relationships
           /\ relationshipHistory' = g.relationshipHistory
           /\ ret' = [op |-> "updateRelationship", validating |-> TRUE,
                      entity1 |-> entity1Id, entity2 |-> entity2Id,
                      strength |-> strength, threw |-> g.threw]
    /\ UNCHANGED <<engineVars,
                   entityVars, playerStandings, worldVars, pipelineVars>>

\* a call of removeRelationship(entity1Id, entity2Id)
RemoveRelationship(entity1Id, entity2Id) ==
    /\ calls < MaxGraphCalls
    /\ calls' = calls + 1
    /\ LET g == removeRelationship(relationships, relationshipHistory,
                                   entity1Id, entity2Id)
       IN  /\ relationships' = g.relationships
           /\ relationshipHistory' = g.relationshipHistory
           /\ ret' = [op |-> "removeRelationship",
                      entity1 |-> entity1Id, entity2 |-> entity2Id,
                      removed |-> g.removed]
    /\ UNCHANGED <<engineVars,
                   entityVars, playerStandings, worldVars, pipelineVars>>

\* a call of calculateRelationshipStrength(entity1Id, entity2Id)
CalculateRelationshipStrength(entity1Id, entity2Id) ==
    /\ calls < MaxGraphCalls
    /\ calls' = calls + 1
    /\ ret' = [op |-> "calculateRelationshipStrength",
               entity1 |-> entity1Id, entity2 |-> entity2Id,
               value |-> calculateRelationshipStrength(relationships,
                                                       entity1Id, entity2Id)]
    /\ UNCHANGED <<engineVars, entityVars, graphVars, worldVars, pipelineVars>>

\* the pairs of ids the update, remove and read calls explored name
Pairs ==
    {<<"a", "b">>, <<"b", "a">>, <<"a", "c">>, <<"c", "a">>}

NextGraph ==
    \/ \E c \in SetArguments : SetRelationship(c[1], c[2], c[3])
    \/ \E c \in SetValidatedArguments :
           SetRelationshipValidated(c[1], c[2], c[3])
    \/ \E p \in {<<"a", "b">>, <<"c", "a">>} :
           \E strength \in Strengths \cup {75} :
               UpdateRelationship(p[1], p[2], strength)
    \/ \E p \in {<<"a", "b">>, <<"c", "a">>} :
           \E strength \in {75, 500} :
               UpdateRelationshipValidated(p[1], p[2], strength)
    \/ \E p \in Pairs : RemoveRelationship(p[1], p[2])
    \/ \E p \in Pairs : CalculateRelationshipStrength(p[1], p[2])

SpecGraph ==
    InitGraph /\ [][NextGraph]_vars

-----------------------------------------------------------------------------
(* Direct calls to the Relationship Graph: the network of an entity *)

\* a call of analyzeRelationshipNetwork(entityId)
AnalyzeRelationshipNetwork(entityId) ==
    /\ calls < MaxCalls
    /\ calls' = calls + 1
    /\ LET a == analyzeRelationshipNetwork(relationships, entityId)
       IN  \E trusted \in a.mostTrusted : \E feared \in a.mostFeared :
               ret' = [op |-> "analyzeRelationshipNetwork",
                       entityId |-> entityId,
                       analysis |-> [a EXCEPT !.mostTrusted = trusted,
                                              !.mostFeared = feared]]
    /\ UNCHANGED <<engineVars, entityVars, graphVars, worldVars, pipelineVars>>

\* the edges callers add to the network of a, and the strengths they set
NetworkArguments ==
    {<<"a", t, RelData(type, s)>> :
        t \in {"b", "e"}, type \in {"ally", "enemy", "rival"},
        s \in {80, 100}}

NextNetwork ==
    \/ \E c \in NetworkArguments : SetRelationship(c[1], c[2], c[3])
    \/ \E t \in {"b", "c"} : \E strength \in {0, 80} :
           UpdateRelationship("a", t, strength)
    \/ \E entityId \in {"a", "b", "e"} : AnalyzeRelationshipNetwork(entityId)

SpecNetwork ==
    InitGraph /\ [][NextNetwork]_vars

-----------------------------------------------------------------------------
(* The validating Relationship Graph after many calls *)

\* the data of the k-th setRelationship('a', 'b', ...) of a long run
LongRunData(k) ==
    RelData("[object TRUST]", k % 101)

\* the graph of the validating variant after n calls that alternate
\* setRelationship('a', 'b', LongRunData(k)) and removeRelationship('a', 'b'),
\* for an n of at most RelationshipHistoryLimit
ledgerAfter(n) ==
    LET data(i) == LongRunData((i + 1) \div 2)
        relationship(i) ==
            [type |-> data(i).type, strength |-> data(i).strength,
             reason |-> data(i).reason,
             history |-> <<[type |-> data(i).type,
                            strength |-> data(i).strength,
                            reason |-> data(i).reason]>>]
        entry(i) ==
            [entity1 |-> "a", entity2 |-> "b",
             action |-> IF i % 2 = 1 THEN "established" ELSE "removed",
             relationship |-> relationship(IF i % 2 = 1 THEN i ELSE i - 1)]
    IN  [relationships |->
             IF n = 0
             THEN EmptyMap
             ELSE IF n % 2 = 1
             THEN ("a" :> ("b" :> relationship(n))) @@ ("b" :> EmptyMap)
             ELSE ("a" :> EmptyMap) @@ ("b" :> EmptyMap),
         relationshipHistory |-> [i \in 1..n |-> entry(i)]]

\* an engine whose graph has had almost RelationshipHistoryLimit calls
InitLedger ==
    /\ entities = StartingEntities
    /\ creationHistory = StartingHistory
    /\ \E n \in {RelationshipHistoryLimit - 2, RelationshipHistoryLimit - 1,
                 RelationshipHistoryLimit} :
           /\ relationships = ledgerAfter(n).relationships
           /\ relationshipHistory = ledgerAfter(n).relationshipHistory
    /\ playerStandings = setPlayerStanding(EmptyMap, "village_council", 10)
    /\ globalParameters = DefaultParameters
    /\ worldChanges = <<>>
    /\ events = [current |-> <<>>, completed |-> <<>>, failed |-> <<>>,
                 scheduled |-> <<>>]
    /\ information = [rumorMill |-> <<>>, news |-> <<>>]
    /\ InitCalls

NextLedger ==
    \/ \E c \in SetValidatedArguments :
           SetRelationshipValidated(c[1], c[2], c[3])
    \/ \E p \in {<<"a", "b">>, <<"c", "a">>} :
           \E strength \in {75, 500} :
               UpdateRelationshipValidated(p[1], p[2], strength)
    \/ \E p \in Pairs : RemoveRelationship(p[1], p[2])

SpecLedger ==
    InitLedger /\ [][NextLedger]_vars

-----------------------------------------------------------------------------
(* Direct calls to the World State of a world with a long past *)

\* the world state after n events were added to a new world, for an n of at
\* most WorldChangesLimit
chronicleAfter(n) ==
    LET event(i) ==
            [id |-> "e" \o ToString(i), name |-> "e" \o ToString(i),
             type |-> "social", duration |-> "ongoing", endTime |-> Null,
             status |-> "active"]
    IN  [events |-> [current |-> [i \in 1..n |-> event(i)],
                     completed |-> <<>>, failed |-> <<>>, scheduled |-> <<>>],
         worldChanges |->
             [i \in 1..n |-> [type |-> "event_added", event |-> event(i)]]]

\* the feeds after r rumors and m news items were added to a new world, for
\* an r of at most RumorLimit and an m of at most NewsLimit
feedsAfter(r, m) ==
    [rumorMill |-> [i \in 1..r |-> "r" \o ToString(i)],
     news |-> [i \in 1..m |-> "n" \o ToString(m - i + 1)]]

InitChronicle ==
    /\ entities = StartingEntities
    /\ creationHistory = StartingHistory
    /\ relationships = EmptyMap
    /\ relationshipHistory = <<>>
    /\ playerStandings = setPlayerStanding(EmptyMap, "village_council", 10)
    /\ globalParameters = DefaultParameters
    /\ \E n \in {0, WorldChangesLimit - 1, WorldChangesLimit} :
           /\ events = chronicleAfter(n).events
           /\ worldChanges = chronicleAfter(n).worldChanges
    /\ \E r \in {0, RumorLimit - 1, RumorLimit} :
           \E m \in {0, NewsLimit - 1, NewsLimit} :
               information = feedsAfter(r, m)
    /\ InitCalls

\* a call of WorldState.addEvent(eventData)
AddEvent(eventData) ==
    /\ calls < MaxCalls
    /\ calls' = calls + 1
    /\ LET w == addEvent(events, worldChanges, eventData)
       IN  /\ events' = w.events
           /\ worldChanges' = w.worldChanges
    /\ ret' = [op |-> "addEvent", eventData |-> eventData]
    /\ UNCHANGED <<engineVars, entityVars, graphVars, globalParameters,
                   information, pipelineVars>>

\* a call of WorldState.addRumor(rumor)
AddRumor(rumor) ==
    /\ calls < MaxCalls
    /\ calls' = calls + 1
    /\ information' = addRumor(information, rumor)
    /\ ret' = [op |-> "addRumor", rumor |-> rumor]
    /\ UNCHANGED <<engineVars, entityVars, graphVars, globalParameters,
                   worldChanges, events, pipelineVars>>

\* a call of WorldState.addNews(newsItem)
AddNews(newsItem) ==
    /\ calls < MaxCalls
    /\ calls' = calls + 1
    /\ information' = addNews(information, newsItem)
    /\ ret' = [op |-> "addNews", newsItem |-> newsItem]
    /\ UNCHANGED <<engineVars, entityVars, graphVars, globalParameters,
                   worldChanges, events, pipelineVars>>

NextChronicle ==
    \/ \E id \in {"a", "b"} : AddEvent(Data(id, id, Undefined, Undefined))
    \/ \E rumor \in {"a", "b"} : AddRumor(rumor)
    \/ \E newsItem \in {"a", "b"} : AddNews(newsItem)

SpecChronicle ==
    InitChronicle /\ [][NextChronicle]_vars

-----------------------------------------------------------------------------
(* Direct calls to the World State: the clock and the life of events *)

\* a call of WorldState.advanceTime(amount, unit)
AdvanceTime(amount, unit) ==
    /\ calls < MaxCalls
    /\ calls' = calls + 1
    /\ LET a == advanceTime(temporal, events, worldChanges, amount, unit, now)
       IN  /\ temporal' = a.temporal
           /\ events' = a.events
           /\ worldChanges' = a.worldChanges
           /\ ret' = [op |-> "advanceTime", amount |-> amount, unit |-> unit,
                      threw |-> a.threw]
    /\ UNCHANGED <<player, storyContext, meta, now, entityVars, graphVars,
                   globalParameters, information, pipelineVars>>

\* a call of WorldState.completeEvent(eventId, success)
CompleteEvent(eventId, success) ==
    /\ calls < MaxCalls
    /\ calls' = calls + 1
    /\ LET c == completeEvent(events, worldChanges, eventId, success, now)
       IN  /\ events' = c.events
           /\ worldChanges' = c.worldChanges
           /\ ret' = [op |-> "completeEvent", eventId |-> eventId,
                      success |-> success, threw |-> c.threw]
    /\ UNCHANGED <<engineVars, entityVars, graphVars, globalParameters,
                   information, pipelineVars>>

\* the clock of the host moves on between two calls
Tick ==
    /\ now < MaxClock
    /\ now' = now + 1
    /\ UNCHANGED <<player, storyContext, meta, temporal, storeVars,
                   pipelineVars, ret, calls>>

\* the amounts and units callers advance the clock by
TimeSteps ==
    {<<1, "hour">>, <<5, "hour">>, <<13, "hour">>,
     <<1, "day">>, <<29, "day">>, <<30, "day">>, <<61, "day">>,
     <<1, "month">>, <<3, "month">>, <<4, "month">>,
     <<1, "year">>, <<1, "week">>, <<2, "minute">>}

NextCalendar ==
    \E step \in TimeSteps : AdvanceTime(step[1], step[2])

SpecCalendar ==
    Init /\ [][NextCalendar]_vars

\* eventData of an event with a duration and an end time
Happening(id, duration, endTime) ==
    [id |-> id, name |-> id, type |-> Undefined, duration |-> duration,
     endTime |-> endTime]

\* the events callers add: one that goes on, and temporary ones that end at
\* the first and at the last instant
Happenings ==
    {Happening("a", Undefined, Undefined),
     Happening("a", "temporary", toISOString(1)),
     Happening("b", "temporary", toISOString(1)),
     Happening("b", "temporary", toISOString(MaxClock))}

NextEventLife ==
    \/ \E eventData \in Happenings : AddEvent(eventData)
    \/ \E eventId \in {"a", "b", "c"} :
           \E success \in BOOLEAN : CompleteEvent(eventId, success)
    \/ AdvanceTime(1, "hour")
    \/ Tick

SpecEventLife ==
    Init /\ [][NextEventLife]_vars

-----------------------------------------------------------------------------
(* Direct calls to the player standings *)

\* the standings after setPlayerStanding('faction1', {value: 10}) and n
\* updatePlayerStanding('faction1', 1, 'completed quest'), for an n of at
\* most StandingHistoryLimit
standingsAfter(n) ==
    LET change(i) == [amount |-> 1, reason |-> "completed quest",
                      previousValue |-> 10 + i - 1]
    IN  IF n = 0
        THEN setPlayerStanding(EmptyMap, "faction1", 10)
        ELSE ("faction1" :> [value |-> 10 + n,
                             history |-> [i \in 1..n |-> change(i)],
                             lastChange |-> change(n)])

\* an engine whose standing with faction1 has been updated a number of times
InitStanding ==
    /\ entities = StartingEntities
    /\ creationHistory = StartingHistory
    /\ relationships = EmptyMap
    /\ relationshipHistory = <<>>
    /\ \E n \in {0, 1, StandingHistoryLimit - 1, StandingHistoryLimit} :
           playerStandings = standingsAfter(n)
    /\ globalParameters = DefaultParameters
    /\ worldChanges = <<>>
    /\ events = [current |-> <<>>, completed |-> <<>>, failed |-> <<>>,
                 scheduled |-> <<>>]
    /\ information = [rumorMill |-> <<>>, news |-> <<>>]
    /\ InitCalls

\* a call of setPlayerStanding(entityId, {value})
SetPlayerStanding(entityId, value) ==
    /\ calls < MaxCalls
    /\ calls' = calls + 1
    /\ playerStandings' = setPlayerStanding(playerStandings, entityId, value)
    /\ ret' = [op |-> "setPlayerStanding", entityId |-> entityId,
               value |-> value]
    /\ UNCHANGED <<engineVars, entityVars, relationships, relationshipHistory,
                   worldVars, pipelineVars>>

\* a call of updatePlayerStanding(entityId, change, reason)
UpdatePlayerStanding(entityId, change, reason) ==
    /\ calls < MaxCalls
    /\ calls' = calls + 1
    /\ playerStandings' = updatePlayerStanding(playerStandings, entityId,
                                               change, reason)
    /\ ret' = [op |-> "updatePlayerStanding", entityId |-> entityId,
               change |-> change, reason |-> reason,
               value |-> playerStandings'[entityId]]
    /\ UNCHANGED <<engineVars, entityVars, relationships, relationshipHistory,
                   worldVars, pipelineVars>>

NextStanding ==
    \/ \E entityId \in {"faction1", "faction2"} :
           SetPlayerStanding(entityId, 10)
    \/ \E entityId \in {"faction1", "faction2"}, change \in {15, -200, 0} :
           UpdatePlayerStanding(entityId, change, "completed quest")

SpecStanding ==
    InitStanding /\ [][NextStanding]_vars

-----------------------------------------------------------------------------
(* Direct calls to the Entity Store: deleting what others refer to *)

\* a location next to the village square
Outskirts ==
    [Data("a", "a", "settlement", Undefined) EXCEPT
        !.connectedTo = <<"village_square">>]

\* the entities deleted: a leader with edges, a place with inhabitants and a
\* neighbour, a faction, and an id nothing is stored under
Deleted ==
    {<<"npc", "village_elder">>, <<"location", "village_square">>,
     <<"faction", "village_council">>, <<"npc", "a">>}

NextRemoval ==
    \/ \E p \in {<<"village_elder", "village_council">>,
                 <<"village_council", "village_elder">>,
                 <<"a", "village_square">>} :
           SetRelationship(p[1], p[2], RelData("ally", 80))
    \/ \E entityId \in {"village_elder", "village_square"} :
           UpdatePlayerStanding(entityId, 15, "helped")
    \/ CreateEntity("location", "a", Outskirts)
    \/ \E d \in Deleted : DeleteEntity(d[1], d[2])

SpecRemoval ==
    Init /\ [][NextRemoval]_vars

-----------------------------------------------------------------------------
(* StoryEngine: exporting the game state and restoring it *)

\* obj[key] of JavaScript: undefined for a key obj does not have
\* obj with the keys in keys only
Restrict(obj, keys) ==
    [k \in keys |-> obj[k]]

\* the state of the engine the variables describe
Engine ==
    Store @@ [player |-> player, storyContext |-> storyContext, meta |-> meta]

\* the engine becomes E; the clock, which no call made before an export
\* advances, is the one of a new world in E as well
SetEngine(E) ==
    /\ SetStore(E)
    /\ player' = E.player
    /\ storyContext' = E.storyContext
    /\ meta' = E.meta
    /\ UNCHANGED <<temporal, now>>

\* new StoryEngine(apiKey)
FreshEngine ==
    [entities |-> StartingEntities,
     creationHistory |-> StartingHistory,
     relationships |-> EmptyMap,
     playerStandings |-> setPlayerStanding(EmptyMap, "village_council", 10),
     relationshipHistory |-> <<>>,
     globalParameters |-> DefaultParameters,
     worldChanges |-> <<>>,
     events |-> [current |-> <<>>, completed |-> <<>>, failed |-> <<>>,
                 scheduled |-> <<>>],
     information |-> [rumorMill |-> <<>>, news |-> <<>>],
     player |-> NewPlayer,
     storyContext |-> NewStoryContext,
     meta |-> NewMeta]

RelationshipExportLimit ==
    100

\* exportRelationships()
exportRelationships(rels, standings, hist) ==
    [relationships |-> rels,
     playerStandings |-> standings,
     relationshipHistory |-> SliceLast(hist, RelationshipExportLimit)]

\* importRelationships(data)
importRelationships(data) ==
    [relationships |->
         IF "relationships" \in DOMAIN data
         THEN data.relationships ELSE EmptyMap,
     playerStandings |->
         IF "playerStandings" \in DOMAIN data
         THEN data.playerStandings ELSE EmptyMap,
     relationshipHistory |->
         IF "relationshipHistory" \in DOMAIN data
         THEN data.relationshipHistory ELSE <<>>]

\* importEntities(data)
importEntities(ents, hist, data) ==
    [entities |->
         IF "entities" \in DOMAIN data THEN data.entities ELSE ents,
     creationHistory |->
         IF "creationHistory" \in DOMAIN data
         THEN data.creationHistory ELSE hist]

\* importWorldState(data), on the parts of the world state the model keeps
importWorldState(E, data) ==
    [E EXCEPT
       !.globalParameters =
           IF "globalParameters" \in DOMAIN data
           THEN data.globalParameters ELSE @,
       !.events = IF "events" \in DOMAIN data THEN data.events ELSE @,
       !.information =
           IF "information" \in DOMAIN data THEN data.information ELSE @,
       !.worldChanges =
           IF "history" \in DOMAIN data THEN data.history.worldChanges ELSE @]

\* compileGameState()
compileGameState(E) ==
    [player |-> E.player,
     entities |-> [npcs |-> Prop(E.entities, "npc"),
                   factions |-> Prop(E.entities, "faction"),
                   locations |-> Prop(E.entities, "location"),
                   items |-> Prop(E.entities, "item")],
     relationships |->
         [playerStandings |-> E.playerStandings,
          entityRelationships |->
              exportRelationships(E.relationships, E.playerStandings,
                                  E.relationshipHistory)],
     worldState |->
         [globalParameters |-> E.globalParameters,
          events |-> E.events,
          information |-> E.information,
          history |-> [worldChanges |-> E.worldChanges]],
     storyContext |-> E.storyContext,
     meta |-> E.meta]

\* the four sections a save file must have
requiredSections ==
    {"player", "entities", "worldState", "meta"}

\* validateSaveFile(gameState) that looks for the player section only
validateSaveFilePlayerOnly(gameState) ==
    "player" \in DOMAIN gameState

\* validateSaveFile(gameState)
validateSaveFile(gameState) ==
    \A section \in requiredSections : section \in DOMAIN gameState

\* the setPlayerStanding calls of restoreGameState, one per saved standing
restorePlayerStandings(standings, saved) ==
    [id \in DOMAIN saved \cup DOMAIN standings |->
        IF id \in DOMAIN saved
        THEN [value |-> saved[id].value,
              history |-> saved[id].history,
              lastChange |-> saved[id].lastChange]
        ELSE standings[id]]

\* restoreGameState(gameState); threw is the TypeError raised on the way by
\* a relationships section without entityRelationships or playerStandings,
\* or by a missing worldState section, with what was restored before it
restoreGameState(E, gameState) ==
    LET imp == importEntities(E.entities, E.creationHistory,
                              Restrict(gameState,
                                       {"entities"} \cap DOMAIN gameState))
        E2 == [E EXCEPT !.player = Prop(gameState, "player"),
                        !.entities = imp.entities,
                        !.creationHistory = imp.creationHistory]
        hasGraph == "relationships" \in DOMAIN gameState
        hasEdges == /\ hasGraph
                    /\ "entityRelationships" \in DOMAIN gameState.relationships
        g == importRelationships(gameState.relationships.entityRelationships)
        E3 == IF hasEdges
              THEN [E2 EXCEPT !.relationships = g.relationships,
                              !.playerStandings = g.playerStandings,
                              !.relationshipHistory = g.relationshipHistory]
              ELSE E2
        hasStandings == /\ hasEdges
                        /\ "playerStandings" \in DOMAIN gameState.relationships
        E4 == IF hasStandings
              THEN [E3 EXCEPT !.playerStandings =
                       restorePlayerStandings(
                           @, gameState.relationships.playerStandings)]
              ELSE E3
    IN  IF hasGraph /\ ~hasStandings
        THEN [threw |-> "TypeError", engine |-> E3]
        ELSE IF "worldState" \notin DOMAIN gameState
        THEN [threw |-> "TypeError", engine |-> E4]
        ELSE [threw |-> None,
              engine |-> [importWorldState(E4, gameState.worldState) EXCEPT
                            !.storyContext = Prop(gameState, "storyContext"),
                            !.meta = Prop(gameState, "meta")]]

\* the engine whose state was saved: the player renamed and promoted, the
\* tension raised, two relationships set
SavedEngine ==
    [FreshEngine EXCEPT
       !.player = [name |-> "Test Hero", level |-> 5],
       !.globalParameters = [@ EXCEPT ![tension] = 75],
       !.relationships = setUp(2).relationships,
       !.relationshipHistory = setUp(2).relationshipHistory,
       !.meta = [@ EXCEPT !.choiceCount = 3]]

SavedDocument ==
    compileGameState(SavedEngine)

\* the documents a save file may hold: any selection of the sections of a
\* saved document, and one whose relationships section lacks playerStandings
Documents ==
    {Restrict(SavedDocument, S) : S \in SUBSET DOMAIN SavedDocument}
    \cup {[SavedDocument EXCEPT !.relationships =
              Restrict(@, {"entityRelationships"})]}

\* what loadGame finds under the file name: no file, text that is not JSON,
\* or a document
Files ==
    {[kind |-> "missing"], [kind |-> "notjson"]}
    \cup {[kind |-> "json", document |-> d] : d \in Documents}

\* the calls that fill an engine before its state is exported
Populating ==
    ret.op \in {"none", "createEntity", "setRelationship",
                "updateGlobalParameter", "editPlayer"}

\* engine.player.name = name; engine.player.level = level
EditPlayer(name, level) ==
    /\ Populating
    /\ calls < MaxCalls
    /\ calls' = calls + 1
    /\ player' = [player EXCEPT !.name = name, !.level = level]
    /\ ret' = [op |-> "editPlayer"]
    /\ UNCHANGED <<storeVars, pipelineVars, storyContext, meta, temporal,
                   now>>

\* newEngine.restoreGameState(engine.compileGameState()): from here on the
\* variables describe newEngine; ret keeps the engine that was exported
ExportAndRestore ==
    /\ Populating
    /\ calls < MaxCalls
    /\ calls' = calls + 1
    /\ LET r == restoreGameState(FreshEngine, compileGameState(Engine))
       IN  /\ SetEngine(r.engine)
           /\ ret' = [op |-> "restoreGameState", exported |-> Engine,
                      threw |-> r.threw]
    /\ UNCHANGED pipelineVars

\* loadGame(filename)
LoadGame(file) ==
    /\ calls < MaxCalls
    /\ calls' = calls + 1
    /\ IF file.kind # "json"
       THEN /\ ret' = [op |-> "loadGame", file |-> file, value |-> FALSE]
            /\ UNCHANGED <<storeVars, engineVars>>
       ELSE IF ~validateSaveFile(file.document)
       THEN /\ ret' = [op |-> "loadGame", file |-> file, value |-> FALSE]
            /\ UNCHANGED <<storeVars, engineVars>>
       ELSE LET r == restoreGameState(Engine, file.document)
            IN  /\ SetEngine(r.engine)
                /\ ret' = [op |-> "loadGame", file |-> file,
                           value |-> (r.threw = None)]
    /\ UNCHANGED pipelineVars

\* entityManager.getEntity(type, id): this.entities[type][id] || null, a
\* TypeError when this.entities has no such type
GetEntity(type, id) ==
    /\ calls < MaxCalls
    /\ calls' = calls + 1
    /\ ret' = [op |-> "getEntity", type |-> type, id |-> id,
               threw |-> IF type \in DOMAIN entities
                         THEN None ELSE "TypeError",
               found |-> /\ type \in DOMAIN entities
                         /\ id \in DOMAIN entities[type]]
    /\ UNCHANGED <<storeVars, engineVars, pipelineVars>>

NextSave ==
    \/ /\ Populating
       /\ \E id \in {"a", "b"} :
              CreateEntity("npc", id, Data(id, "x", Undefined, Undefined))
    \/ /\ Populating
       /\ SetRelationship("a", "b", RelData("ally", 80))
    \/ /\ Populating
       /\ UpdateGlobalParameter(tension, 5)
    \/ EditPlayer("Test Hero", 5)
    \/ ExportAndRestore
    \/ \E file \in Files : LoadGame(file)
    \/ \E type \in {"npc", "item"}, id \in {"village_elder", "a"} :
           GetEntity(type, id)

SpecSave ==
    InitGraph /\ [][NextSave]_vars

-----------------------------------------------------------------------------
(* The integrity scan of a world whose references may dangle *)

\* CreationSystem.getGameState(), on the parts the scan reads
getGameState(E) ==
    [entities |-> E.entities,
     worldState |-> [globalParameters |-> E.globalParameters,
                     events |-> E.events]]

\* data of entities that refer to others: an NPC somewhere and nowhere, a
\* faction led by the elder and by nobody known, a location next to the
\* square and next to nowhere
ReferringData ==
    {<<"npc", Data("a", "a", Undefined, "nowhere")>>,
     <<"npc", Data("a", "a", Undefined, "village_square")>>,
     <<"faction",
       Data("a", "a", Undefined, Undefined)
           @@ [leadership |-> <<"village_elder", "ghost", "ghost">>]>>,
     <<"location",
       [Data("a", "a", Undefined, Undefined) EXCEPT
           !.connectedTo = <<"village_square", "nowhere">>]>>}

\* world states as a save file can hold them
ImportedWorlds ==
    {[globalParameters |-> [DefaultParameters EXCEPT ![tension] = 150]],
     [globalParameters |-> [DefaultParameters EXCEPT
                               ![tension] = 100,
                               ![economicState] = -5,
                               ![magicalActivity] = 101]]}

\* a call of WorldState.importWorldState(data)
ImportWorldState(data) ==
    /\ calls < MaxCalls
    /\ calls' = calls + 1
    /\ LET E == importWorldState(Engine, data)
       IN  /\ globalParameters' = E.globalParameters
           /\ events' = E.events
           /\ information' = E.information
           /\ worldChanges' = E.worldChanges
    /\ ret' = [op |-> "importWorldState"]
    /\ UNCHANGED <<engineVars, entityVars, graphVars, pipelineVars>>

\* a call of validateGameStateIntegrity(gameState), with the game state of
\* StoryEngine.compileGameState() (compiled) or of
\* CreationSystem.getGameState()
ValidateGameStateIntegrity(compiled) ==
    /\ calls < MaxCalls
    /\ calls' = calls + 1
    /\ ret' = [op |-> "validateGameStateIntegrity", compiled |-> compiled,
               integrity |->
                   validateGameStateIntegrity(
                       IF compiled THEN compileGameState(Engine)
                       ELSE getGameState(Engine))]
    /\ UNCHANGED <<engineVars, storeVars, pipelineVars>>

NextIntegrity ==
    \/ \E d \in ReferringData : CreateEntity(d[1], "a", d[2])
    \/ \E type \in {"npc", "location"} :
           \E id \in {"village_elder", "village_square"} :
               DeleteEntity(type, id)
    \/ \E data \in ImportedWorlds : ImportWorldState(data)
    \/ \E compiled \in BOOLEAN : ValidateGameStateIntegrity(compiled)

SpecIntegrity ==
    Init /\ [][NextIntegrity]_vars

-----------------------------------------------------------------------------
(* Read-side calls *)

\* a call of getAllEntities(type)
GetAllEntities(type) ==
    /\ calls < MaxCalls
    /\ calls' = calls + 1
    /\ ret' = [op |-> "getAllEntities", type |-> type,
               value |-> getAllEntities(entities, type)]
    /\ UNCHANGED <<storeVars, engineVars, pipelineVars>>

\* a call of getRelationship(entity1Id, entity2Id)
GetRelationship(entity1Id, entity2Id) ==
    /\ calls < MaxCalls
    /\ calls' = calls + 1
    /\ ret' = [op |-> "getRelationship", entity1 |-> entity1Id,
               entity2 |-> entity2Id,
               value |-> getRelationship(relationships, entity1Id,
                                         entity2Id)]
    /\ UNCHANGED <<storeVars, engineVars, pipelineVars>>

\* a call of getPlayerStanding(entityId)
GetPlayerStanding(entityId) ==
    /\ calls < MaxCalls
    /\ calls' = calls + 1
    /\ LET g == getPlayerStanding(playerStandings, entityId)
       IN  /\ playerStandings' = g.playerStandings
           /\ ret' = [op |-> "getPlayerStanding", entityId |-> entityId,
                      value |-> g.value]
    /\ UNCHANGED <<engineVars, entityVars, relationships,
                   relationshipHistory, worldVars, pipelineVars>>

\* a call of analyzeWorldState()
AnalyzeWorldState ==
    /\ calls < MaxCalls
    /\ calls' = calls + 1
    /\ ret' = [op |-> "analyzeWorldState",
               value |-> analyzeWorldState(globalParameters)]
    /\ UNCHANGED <<storeVars, engineVars, pipelineVars>>

\* the read calls, among calls that write
NextRead ==
    \/ \E type \in {"npc", "item"}, id \in {"a", "village_elder"} :
           GetEntity(type, id)
    \/ \E type \in {"npc", "location"} : GetAllEntities(type)
    \/ \E p \in {<<"a", "b">>, <<"b", "a">>, <<"a", "e">>, <<"e", "a">>} :
           GetRelationship(p[1], p[2])
    \/ \E entityId \in {"village_council", "a"} : GetPlayerStanding(entityId)
    \/ \E p \in {<<"a", "b">>, <<"e", "a">>} :
           CalculateRelationshipStrength(p[1], p[2])
    \/ \E entityId \in {"a", "e"} : AnalyzeRelationshipNetwork(entityId)
    \/ AnalyzeWorldState
    \/ CreateEntity("npc", "a", Data("a", "a", Undefined, Undefined))
    \/ UpdatePlayerStanding("a", 15, "helped")
    \/ \E data \in ImportedWorlds : ImportWorldState(data)

SpecRead ==
    InitGraph /\ [][NextRead]_vars

-----------------------------------------------------------------------------
(* The pipeline when every awaited promise settles.  The validators and    *)
(* the creation steps are async functions without a pending wait, so each  *)
(* continuation of processEntityCreation is run by the event loop once it  *)
(* is enabled; when the caller submits is left open.                       *)

\* payloads whose world updates throw or do not, and one that admits a
\* location
ReleasePayloads ==
    UpdatePayloads
    \cup {[EmptyPayload EXCEPT
             !.entities.locations =
                 <<Data("a", "a", Undefined, Undefined)>>]}

SubmitAny ==
    \E payload \in ReleasePayloads : ProcessEntityCreation(payload)

Resume ==
    \/ CreateStep
    \/ ResumeLine23
    \/ ResumeLine24
    \/ ResumeLine25
    \/ ResumeLine30

NextRelease ==
    \/ SubmitAny
    \/ Resume

\* every continuation changes the position of the call
progress ==
    <<pc, idx, finished>>

SpecRelease ==
    Init /\ [][NextRelease]_vars /\ WF_progress(Resume)

-----------------------------------------------------------------------------
(* Properties of the Entity Store *)

\* C1: a createEntity(K, I, d2) for a (K, I) that is already stored fails
\* with the duplicate error and leaves the stored entity and the creation
\* history of every kind as they were.
C1_DuplicateRejected ==
    [][(/\ calls' = calls + 1
        /\ ret'.op = "createEntity"
        /\ ret'.id \in DOMAIN entities[ret'.type])
       => (/\ ret'.threw = "already exists"
           /\ entities' = entities
           /\ creationHistory' = creationHistory)]_vars

\* a second creation with other data was refused and the first data is kept
C1_Witness ==
    /\ ret.op = "createEntity"
    /\ ret.threw = "already exists"
    /\ ret.id \in DOMAIN entities[ret.type]
    /\ entities[ret.type][ret.id].name # ret.data.name

-----------------------------------------------------------------------------
(* Properties of the Creation Pipeline *)

\* C2: a processEntityCreation call that finds the pipeline Processing only
\* appends its payload to the queue: no store changes and the call in flight
\* stays where it is.
C2_QueuedCallOnlyAppends ==
    [][(processingLock /\ submitted' = submitted + 1)
       => (/\ Len(creationQueue') = Len(creationQueue) + 1
           /\ SubSeq(creationQueue', 1, Len(creationQueue)) = creationQueue
           /\ creationQueue'[Len(creationQueue')].batch = submitted'
           /\ UNCHANGED storeVars
           /\ UNCHANGED <<processingLock, pc, cur, idx, validation, results>>)]_vars

\* a call was queued behind a batch that is in the middle of its proposals
C2_Witness ==
    /\ processingLock
    /\ ret.op = "processEntityCreation"
    /\ ret.result = "queued"
    /\ creationQueue # <<>>
    /\ pc = "line23"
    /\ idx = 2

\* C3: the stores change only on behalf of the batch in flight, that batch
\* has not finished before, and every batch that was in flight or queued
\* when it was submitted has finished: queued batches commit in submission
\* order, one after the other.
C3_FifoOrder ==
    [][(storeVars' # storeVars)
       => (/\ pc # "idle"
           /\ cur.batch \notin finished
           /\ \A o \in before : o[2] = cur.batch => o[1] \in finished)]_vars

\* batch 3, queued behind 2 while 1 was in flight, has committed something
C3_Witness ==
    /\ {<<1, 2>>, <<1, 3>>, <<2, 3>>} \subseteq before
    /\ pc = "line30"
    /\ cur.batch = 3
    /\ {1, 2} \subseteq finished
    /\ \E k \in Kinds : results.created[k] # <<>>

\* an endpoint exists for a batch: it is in the Entity Store or is an event
\* the batch has created
EndpointExists(ents, res, id) ==
    \/ findEntity(ents, id)
    \/ \E i \in DOMAIN res.created["event"] : res.created["event"][i] = id

\* the relationships of a payload whose endpoints both exist
Committable(ents, res, rels) ==
    {i \in DOMAIN rels : /\ EndpointExists(ents, res, rels[i].entity1)
                         /\ EndpointExists(ents, res, rels[i].entity2)}

\* C4: when the pipeline is done with a queued payload, the relationships of
\* the payload whose endpoints exist are in the graph and its rumors and news
\* are in the feed.
C4_QueuedProcessedInFull ==
    [][(pc = "line30" /\ cur.batch \in finished' /\ cur.batch \notin finished)
       => (/\ \A i \in DOMAIN cur.relationships :
                 (/\ findEntity(entities, cur.relationships[i].entity1)
                  /\ findEntity(entities, cur.relationships[i].entity2))
                 => (/\ cur.relationships[i].entity1 \in DOMAIN relationships'
                     /\ cur.relationships[i].entity2
                            \in DOMAIN relationships'[cur.relationships[i].entity1])
           /\ \A i \in DOMAIN cur.worldUpdates.rumors :
                 \E j \in DOMAIN information'.rumorMill :
                     information'.rumorMill[j] = cur.worldUpdates.rumors[i]
           /\ \A i \in DOMAIN cur.worldUpdates.news :
                 \E j \in DOMAIN information'.news :
                     information'.news[j] = cur.worldUpdates.news[i])]_vars

\* C5: whenever the pipeline is Idle the creation queue is empty.
C5_IdleMeansDrained ==
    ~processingLock => creationQueue = <<>>

\* C6: every proposal evaluated so far is in exactly one of the created and
\* failed buckets, every failed entry carries a reason, the created NPCs are
\* in the store, and no error escapes a call whose payload proposes NPCs
\* only.
C6_PartialFailureTolerant ==
    /\ \A k \in Kinds : \A i \in DOMAIN results.failed[k] :
           results.failed[k][i].reason # Undefined
    /\ \A i \in DOMAIN results.created["npc"] :
           results.created["npc"][i] \in DOMAIN entities["npc"]
    /\ pc \in {"line23", "line30"}
           => Len(results.created["npc"]) + Len(results.failed["npc"])
                  = Min(idx - 1, Len(cur.entities.npcs))
    /\ (ret.op = "processEntityCreation" /\ ret.result = "threw"
            /\ pc = "idle")
           => cur.worldUpdates # NoUpdates

\* C7: when the relationships of a batch are processed, the ledger grows by
\* exactly the proposed relationships whose endpoints both exist after the
\* entity-creation phase, entities and events created by the batch included.
C7_RelationshipIffEndpoints ==
    [][(pc = "line23" /\ pc' = "line24")
       => Len(relationshipHistory') - Len(relationshipHistory)
              = Cardinality(Committable(entities, results, cur.relationships))]_vars

\* the locations proposals name
NpcLocations ==
    {"village_square", "forest"}

\* C8: no location is the location of more than MAX_NPCS_PER_LOCATION NPCs.
C8_NpcCapacity ==
    \A loc \in NpcLocations :
        Cardinality(locationNPCs(entities, loc)) <= MAX_NPCS_PER_LOCATION

\* the square is full: of two NPCs proposed for it in one batch the first
\* was admitted and the second rejected
C8_Witness ==
    /\ Cardinality(locationNPCs(entities, "village_square"))
           = MAX_NPCS_PER_LOCATION
    /\ results.created["npc"] # <<>>
    /\ results.failed["npc"] # <<>>
    /\ results.failed["npc"][1].data.location = "village_square"
    /\ results.failed["npc"][1].reason # "already exists"

-----------------------------------------------------------------------------
(* Properties of the World Parameter Store *)

\* the entry of WORLD_PARAMETERS the constructor pairs each parameter with
DeclaredBounds ==
    (tension :> WORLD_PARAMETERS[GLOBAL_TENSION])
    @@ (politicalStability :> WORLD_PARAMETERS[POLITICAL_STABILITY])
    @@ (economicState :> WORLD_PARAMETERS[ECONOMIC_STATE])
    @@ (magicalActivity :> WORLD_PARAMETERS[MAGICAL_ACTIVITY])

\* the last call was updateGlobalParameter for one of the four parameters
UpdatedRecognized ==
    /\ ret.op = "updateGlobalParameter"
    /\ ret.parameter \in DOMAIN globalParameters

C10_OneRecordPerUpdate ==
    [][(/\ calls' = calls + 1
        /\ ret'.op = "updateGlobalParameter"
        /\ ret'.parameter \in DOMAIN globalParameters)
       => LET p == ret'.parameter
              new == Max(DeclaredBounds[p].min,
                         Min(DeclaredBounds[p].max,
                             globalParameters[p] + ret'.change))
          IN  /\ globalParameters'[p] = new
              /\ Len(worldChanges') = Len(worldChanges) + 1
              /\ worldChanges'[Len(worldChanges')].oldValue
                     = globalParameters[p]
              /\ worldChanges'[Len(worldChanges')].newValue = new
              /\ worldChanges'[Len(worldChanges')].change = ret'.change]_vars

-----------------------------------------------------------------------------
(* Properties of the Relationship Graph *)

\* the ids of the graphs explored
GraphIds ==
    {"a", "b", "c", "d"}

\* there is an edge from x to y
Edge(rels, x, y) ==
    x \in DOMAIN rels /\ y \in DOMAIN rels[x]

\* C11: every stored edge has a strength in [0,100]; a setRelationship with
\* a strength above 100 stores 100, one with a strength below 0 stores 0,
\* and neither is refused for its strength.
C11_StrengthClamped ==
    /\ \A x \in DOMAIN relationships : \A y \in DOMAIN relationships[x] :
           relationships[x][y].strength \in 0..100
    /\ (ret.op = "setRelationship" /\ ret.data.strength > 100)
           => (ret.threw # "strength"
               /\ (ret.threw = None => ret.value.strength = 100))
    /\ (ret.op = "setRelationship" /\ ret.data.strength < 0)
           => (ret.threw # "strength"
               /\ (ret.threw = None => ret.value.strength = 0))

\* C14: after removeRelationship(A, B) there is no edge A -> B and no edge
\* B -> A; when there was neither, it returns false and the graph is as it
\* was; the edges of every other pair are as they were.
C14_RemovalBidirectional ==
    [][(calls' = calls + 1 /\ ret'.op = "removeRelationship")
       => LET A == ret'.entity1
              B == ret'.entity2
          IN  /\ ~Edge(relationships', A, B)
              /\ ~Edge(relationships', B, A)
              /\ ret'.removed
                     = (Edge(relationships, A, B) \/ Edge(relationships, B, A))
              /\ ~ret'.removed
                     => (/\ relationships' = relationships
                         /\ relationshipHistory' = relationshipHistory)
              /\ \A x \in GraphIds, y \in GraphIds :
                     {x, y} # {A, B}
                     => (/\ Edge(relationships', x, y)
                                = Edge(relationships, x, y)
                         /\ Edge(relationships, x, y)
                                => relationships'[x][y]
                                       = relationships[x][y])]_vars

\* both directions of a pair had been established and were removed, and an
\* edge of another pair is still there
C14_Witness ==
    /\ ret.op = "removeRelationship"
    /\ ret.removed
    /\ relationshipHistory[Len(relationshipHistory)].action = "removed"
    /\ \E i \in DOMAIN relationshipHistory :
           /\ relationshipHistory[i].action = "established"
           /\ relationshipHistory[i].entity1 = ret.entity2
           /\ relationshipHistory[i].entity2 = ret.entity1
    /\ ~Edge(relationships, ret.entity1, ret.entity2)
    /\ ~Edge(relationships, ret.entity2, ret.entity1)
    /\ Edge(relationships, "a", "c")

\* the shared connections of A and B: the ends of an edge from A that have
\* an edge to B
SharedConnections(rels, A, B) ==
    {c \in GraphIds : Edge(rels, A, c) /\ Edge(rels, c, B)}

\* the sum over the shared connections C in cs of strength(A, C) times
\* strength(C, B)
RECURSIVE PathProducts(_, _, _, _)
PathProducts(rels, cs, A, B) ==
    IF cs = {}
    THEN 0
    ELSE LET c == CHOOSE x \in cs : TRUE
         IN  rels[A][c].strength * rels[c][B].strength
             + PathProducts(rels, cs \ {c}, A, B)

\* C15: calculateRelationshipStrength(A, B) is the strength of the edge
\* A -> B when there is one; otherwise the average over the shared
\* connections C of strength(A, C) * strength(C, B) / 100, and 0 when there
\* is none; strengths 80 and 60 through one shared connection give 48.
C15_TwoHopStrength ==
    ret.op = "calculateRelationshipStrength"
    => LET A == ret.entity1
           B == ret.entity2
           cs == SharedConnections(relationships, A, B)
       IN  /\ ret.value.den > 0
           /\ Edge(relationships, A, B)
                  => ret.value.num
                         = relationships[A][B].strength * ret.value.den
           /\ (~Edge(relationships, A, B) /\ cs = {}) => ret.value.num = 0
           /\ (~Edge(relationships, A, B) /\ cs # {})
                  => ret.value.num * 100 * Cardinality(cs)
                         = PathProducts(relationships, cs, A, B)
                           * ret.value.den
           /\ (/\ ~Edge(relationships, A, B)
               /\ cs = {"c"}
               /\ relationships[A]["c"].strength = 80
               /\ relationships["c"][B].strength = 60)
                  => ret.value.num = 48 * ret.value.den

\* a and b have no direct edge and two shared connections, through which the
\* paths give 48 and 20: the strength is 34
C15_Witness ==
    /\ ret.op = "calculateRelationshipStrength"
    /\ ret.entity1 = "a"
    /\ ret.entity2 = "b"
    /\ ~Edge(relationships, "a", "b")
    /\ SharedConnections(relationships, "a", "b") = {"c", "d"}
    /\ ret.value.num = 34 * ret.value.den

\* the relationship types the system uses
UsedTypes ==
    {"ally", "enemy", "neutral"}

\* C19: a setRelationship(A, B, {type, strength, reason}) with A # B, a type
\* the system uses and a strength in 0..100 succeeds, returns an edge with
\* that type, strength and reason, and getRelationship(A, B) then has that
\* type and strength.
C19_SetThenGet ==
    (/\ ret.op = "setRelationship"
     /\ ret.entity1 # ret.entity2
     /\ ret.data.type \in UsedTypes
     /\ ret.data.strength \in 0..100)
    => (/\ ret.threw = None
        /\ ret.value.type = ret.data.type
        /\ ret.value.strength = ret.data.strength
        /\ ret.value.reason = ret.data.reason
        /\ Edge(relationships, ret.entity1, ret.entity2)
        /\ relationships[ret.entity1][ret.entity2].type = ret.data.type
        /\ relationships[ret.entity1][ret.entity2].strength
               = ret.data.strength)

\* C20: a setRelationship whose two ids are equal, or whose type is none of
\* the recognized kinds, is rejected, and adds no edge and no ledger entry.
C20_RejectsSelfAndUnknownType ==
    [][(/\ calls' = calls + 1
        /\ ret'.op = "setRelationship"
        /\ \/ ret'.entity1 = ret'.entity2
           \/ ret'.data.type \notin UsedTypes \cup RelationshipTypeObjects)
       => (/\ ret'.threw # None
           /\ relationships' = relationships
           /\ relationshipHistory' = relationshipHistory)]_vars

-----------------------------------------------------------------------------
(* Properties of the World Parameter Store: names *)

\* the parameter each accepted spelling of a name stands for: the property
\* names and the keys of WORLD_PARAMETERS
Resolved ==
    (tension :> tension) @@ (GLOBAL_TENSION :> tension)
    @@ (politicalStability :> politicalStability)
    @@ (POLITICAL_STABILITY :> politicalStability)
    @@ (economicState :> economicState) @@ (ECONOMIC_STATE :> economicState)
    @@ (magicalActivity :> magicalActivity)
    @@ (MAGICAL_ACTIVITY :> magicalActivity)

\* C16: updateGlobalParameter(name, delta) with an accepted spelling of the
\* name of a parameter succeeds, commits clamp(current + delta, min, max) to
\* that parameter, leaves the other parameters alone and returns the new
\* value.
C16_NameResolution ==
    [][(/\ calls' = calls + 1
        /\ ret'.op = "updateGlobalParameter"
        /\ ret'.parameter \in DOMAIN Resolved)
       => LET p == Resolved[ret'.parameter]
              new == Max(DeclaredBounds[p].min,
                         Min(DeclaredBounds[p].max,
                             globalParameters[p] + ret'.change))
          IN  /\ ret'.threw = None
              /\ ret'.value = new
              /\ globalParameters'
                     = [globalParameters EXCEPT ![p] = new]]_vars

\* C17: updateGlobalParameter with a name that stands for no parameter
\* fails with the unknown-parameter error and leaves the parameter values
\* and the change history as they were.
C17_UnknownParameterRejected ==
    [][(/\ calls' = calls + 1
        /\ ret'.op = "updateGlobalParameter"
        /\ ret'.parameter \notin DOMAIN Resolved)
       => (/\ ret'.threw = "Unknown global parameter"
           /\ globalParameters' = globalParameters
           /\ worldChanges' = worldChanges)]_vars

\* a call named mood and was refused; the parameters have their values
C17_Witness ==
    /\ ret.op = "updateGlobalParameter"
    /\ ret.parameter = <<"m", "o", "o", "d">>
    /\ ret.change = 5
    /\ ret.threw = "Unknown global parameter"
    /\ globalParameters = DefaultParameters

-----------------------------------------------------------------------------
(* Properties of the pipeline behind detectEntities *)

\* the detection carries nothing: no entities, relationships or updates
IsEmptyPayload(detection) ==
    /\ detection.entities = NoEntities
    /\ detection.relationships = <<>>
    /\ detection.worldUpdates = NoUpdates

\* C18: a reply that is a failed call, has no JSON span or has one that does
\* not parse reaches the pipeline as the empty payload; while the pipeline
\* works on it no store changes, it raises no error, and when nothing is
\* queued behind it the call returns with the lock released.
C18_EmptyPayloadChangesNothing ==
    [][(pc # "idle" /\ cur.reply # "json")
       => (/\ IsEmptyPayload(cur)
           /\ UNCHANGED storeVars
           /\ \A i \in DOMAIN creationQueue' :
                  creationQueue'[i].reply # "json"
                  => IsEmptyPayload(creationQueue'[i])
           /\ (pc = "line25" /\ submitted' = submitted)
                  => (/\ threw = None
                      /\ creationQueue = <<>>
                             => (/\ pc' = "idle"
                                 /\ ~processingLock'
                                 /\ ret'.result = "returned"
                                 /\ ret'.batch = cur.batch)))]_vars

\* after a batch of NPCs, a reply that does not parse went through the
\* pipeline and the call returned
C18_Witness ==
    /\ pc = "idle"
    /\ ~processingLock
    /\ submitted = 2
    /\ cur.batch = 2
    /\ cur.reply = "malformed"
    /\ ret.op = "processEntityCreation"
    /\ ret.result = "returned"
    /\ ret.batch = 2
    /\ "a" \in DOMAIN entities["npc"]

-----------------------------------------------------------------------------
(* Properties of exporting and restoring the game state *)

\* C12: when the state of an engine is exported and restored into a fresh
\* engine, restoreGameState raises nothing, every entity of the exported
\* engine is retrievable by getEntity under its kind and id in the new
\* engine, and the new engine has the same edges, the same player standings
\* and the same world parameter values.
C12_RoundTrip ==
    [][(ret'.op = "restoreGameState" /\ calls' = calls + 1)
       => (/\ ret'.threw = None
           /\ \A type \in Kinds : \A id \in DOMAIN entities[type] :
                  /\ type \in DOMAIN entities'
                  /\ id \in DOMAIN entities'[type]
                  /\ getEntity(entities', type, id) = entities[type][id]
           /\ relationships' = relationships
           /\ playerStandings' = playerStandings
           /\ globalParameters' = globalParameters)]_vars

\* C13: loadGame of a document that lacks one of the sections player,
\* entities, worldState, meta returns false, validateSaveFile is false for
\* the document, and the player, the stores, the story context and the
\* metadata of the engine are what they were.
C13_IncompleteDocumentRejected ==
    [][(/\ ret'.op = "loadGame"
        /\ calls' = calls + 1
        /\ ret'.file.kind = "json"
        /\ \E section \in {"player", "entities", "worldState", "meta"} :
               section \notin DOMAIN ret'.file.document)
       => (/\ ~validateSaveFile(ret'.file.document)
           /\ ret'.value = FALSE
           /\ UNCHANGED <<storeVars, engineVars>>)]_vars

\* a document that lacks only its meta section was refused by an engine
\* whose player and Entity Store differ from the document's
C13_Witness ==
    /\ ret.op = "loadGame"
    /\ ret.file.kind = "json"
    /\ DOMAIN ret.file.document
           = DOMAIN SavedDocument \ {"meta"}
    /\ ret.value = FALSE
    /\ player = NewPlayer
    /\ player # ret.file.document.player
    /\ "npc" \in DOMAIN entities
    /\ "a" \in DOMAIN entities["npc"]

-----------------------------------------------------------------------------
(* Properties of the Relationship Graph: histories *)

\* s is the sequence t with one more entry at its end
OneMore(s, t) ==
    Len(s) = Len(t) + 1 /\ SubSeq(s, 1, Len(t)) = t

\* C21: a setRelationship for a pair that has an edge leaves an edge whose
\* history is the history of the previous edge followed by one new entry,
\* and its ledger entry has the action 'updated'; for a pair without an
\* edge the ledger entry has the action 'established'.
C21_SetKeepsHistory ==
    [][(calls' = calls + 1 /\ ret'.op = "setRelationship"
        /\ ret'.threw = None)
       => LET A == ret'.entity1
              B == ret'.entity2
              last == relationshipHistory'[Len(relationshipHistory')]
          IN  /\ last.entity1 = A /\ last.entity2 = B
              /\ IF Edge(relationships, A, B)
                 THEN /\ OneMore(relationships'[A][B].history,
                                 relationships[A][B].history)
                      /\ last.action = "updated"
                 ELSE last.action = "established"]_vars

\* C22: updateRelationship(A, B, changes) for a pair without an edge A -> B
\* fails with the does-not-exist error, whether or not there is an edge
\* B -> A, and leaves the edges and the ledger as they were.
C22_UpdateOfMissingEdgeFails ==
    [][(calls' = calls + 1 /\ ret'.op = "updateRelationship"
        /\ ~Edge(relationships, ret'.entity1, ret'.entity2))
       => (/\ ret'.threw = "does not exist"
           /\ relationships' = relationships
           /\ relationshipHistory' = relationshipHistory)]_vars

\* an update of c -> a failed while the edge a -> c was there
C22_Witness ==
    /\ ret.op = "updateRelationship"
    /\ ~ret.validating
    /\ ret.threw = "does not exist"
    /\ ret.entity1 = "c"
    /\ ret.entity2 = "a"
    /\ Edge(relationships, "a", "c")
    /\ ~Edge(relationships, "c", "a")
    /\ Len(relationshipHistory) > 0

-----------------------------------------------------------------------------
(* Properties of the player standings *)

\* C24: updatePlayerStanding(id, delta, reason) takes the standing of id, a
\* standing of value 0 and empty history when there is none, and leaves its
\* value at the previous value plus delta, whatever the sum; lastChange is
\* {amount: delta, reason, previousValue}; the history is the previous one
\* followed by lastChange, cut at its front to the 50 most recent entries;
\* the standings of other ids are as they were.
C24_StandingUpdate ==
    [][(calls' = calls + 1 /\ ret'.op = "updatePlayerStanding")
       => LET id == ret'.entityId
              known == id \in DOMAIN playerStandings
              previousValue == IF known THEN playerStandings[id].value ELSE 0
              previous == IF known THEN playerStandings[id].history ELSE <<>>
              standing == playerStandings'[id]
              kept == Len(standing.history) - 1
          IN  /\ standing.value = previousValue + ret'.change
              /\ standing.lastChange
                     = [amount |-> ret'.change, reason |-> ret'.reason,
                        previousValue |-> previousValue]
              /\ Len(standing.history) <= 50
              /\ kept = Min(Len(previous), 49)
              /\ standing.history[kept + 1] = standing.lastChange
              /\ SubSeq(standing.history, 1, kept)
                     = SubSeq(previous, Len(previous) - kept + 1,
                              Len(previous))
              /\ DOMAIN playerStandings'
                     = DOMAIN playerStandings \cup {id}
              /\ \A other \in DOMAIN playerStandings \ {id} :
                     playerStandings'[other] = playerStandings[other]]_vars

\* the standing with faction1 went below -100 with a history that has lost
\* its oldest entries, and faction2 was touched for the first time
C24_Witness ==
    /\ ret.op = "updatePlayerStanding"
    /\ ret.entityId = "faction2"
    /\ playerStandings["faction2"].value = 15
    /\ Len(playerStandings["faction2"].history) = 1
    /\ playerStandings["faction1"].value < -100
    /\ Len(playerStandings["faction1"].history) = 50
    /\ playerStandings["faction1"].history[1].previousValue > 10
    /\ playerStandings["faction1"].history[50].amount = -200

-----------------------------------------------------------------------------
(* Properties of the Entity Store: update and delete *)

\* C25: updateEntity(kind, id, partial) for a (kind, id) that is not stored
\* fails with the not-found error and leaves the entities and the creation
\* history as they were.
C25_UpdateOfMissingEntityFails ==
    [][(calls' = calls + 1 /\ ret'.op = "updateEntity"
        /\ ret'.id \notin DOMAIN entities[ret'.type])
       => (/\ ret'.threw = "not found"
           /\ entities' = entities
           /\ creationHistory' = creationHistory)]_vars

\* C26: deleteEntity(kind, id) raises nothing; it returns true exactly when
\* (kind, id) was stored; afterwards getEntity(kind, id) finds nothing and
\* a createEntity(kind, id, ...) is accepted; every other entity, of this
\* kind or another, is as it was, and when it returns false so is
\* everything.
C26_DeleteEntity ==
    [][(calls' = calls + 1 /\ ret'.op = "deleteEntity")
       => LET type == ret'.type
              id == ret'.id
          IN  /\ ret'.threw = None
              /\ ret'.value = (id \in DOMAIN entities[type])
              /\ id \notin DOMAIN entities'[type]
              /\ getEntity(entities', type, id) = Null
              /\ createEntity(entities', creationHistory', type, id,
                              Data(id, "x", Undefined, Undefined)).threw
                     = None
              /\ ~ret'.value => entities' = entities
              /\ \A k \in Kinds : \A i \in DOMAIN entities[k] :
                     <<k, i>> # <<type, id>>
                     => (i \in DOMAIN entities'[k]
                         /\ entities'[k][i] = entities[k][i])
              /\ \A k \in Kinds : DOMAIN entities'[k] \subseteq DOMAIN entities[k]
              /\ creationHistory' = creationHistory]_vars

\* the npc a was created, deleted and created again: it is stored and the
\* creation history has it twice
C26_Witness ==
    /\ calls = 3
    /\ ret.op = "createEntity"
    /\ ret.type = "npc"
    /\ ret.id = "a"
    /\ ret.threw = None
    /\ "a" \in DOMAIN entities["npc"]
    /\ Len(creationHistory["npc"]) = Townsfolk + 3
    /\ "village_elder" \in DOMAIN entities["npc"]

-----------------------------------------------------------------------------
(* Properties of the pipeline: events *)

\* C27: there are never more than MAX_ACTIVE_EVENTS current events, and the
\* pipeline adds an event only while there are fewer.
C27_ActiveEventsCap ==
    [][/\ Len(events.current) <= MAX_ACTIVE_EVENTS
       /\ Len(events.current') <= MAX_ACTIVE_EVENTS
       /\ events.current' # events.current
              => (/\ Len(events.current) < MAX_ACTIVE_EVENTS
                  /\ Len(events.current') = Len(events.current) + 1)]_vars

\* the limit is reached: of the two events of one batch the first was
\* admitted and the second refused
C27_Witness ==
    /\ Len(events.current) = MAX_ACTIVE_EVENTS
    /\ results.created["event"] # <<>>
    /\ results.failed["event"] # <<>>

-----------------------------------------------------------------------------
(* Properties of the Relationship Graph: the ledger *)

\* C28: the ledger never holds more than 1000 entries, and a call that
\* writes to it leaves the most recent entries of the ledger it found, in
\* their order, followed by its own entry.
C28_LedgerBounded ==
    [][/\ Len(relationshipHistory') <= 1000
       /\ relationshipHistory' # relationshipHistory
              => LET kept == Len(relationshipHistory') - 1
                 IN  /\ kept = Min(Len(relationshipHistory), 999)
                     /\ SubSeq(relationshipHistory', 1, kept)
                            = SubSeq(relationshipHistory,
                                     Len(relationshipHistory) - kept + 1,
                                     Len(relationshipHistory))]_vars

-----------------------------------------------------------------------------
(* Properties of the World State: the history and the feeds *)

\* C29: the change history never holds more than 1000 records, and while
\* fewer than 1000 writes have happened (as in every state of SpecChronicle)
\* a write drops none: the records it found are still there, in their order,
\* before its own.
C29_HistoryKeepsThousand ==
    [][/\ Len(worldChanges') <= 1000
       /\ Len(worldChanges') >= Len(worldChanges)
       /\ SubSeq(worldChanges', 1, Len(worldChanges)) = worldChanges]_vars

\* C30: the rumor feed never holds more than 15 entries and the news feed
\* never more than 20; addRumor leaves the most recent rumors it found, in
\* their order, followed by the new one; addNews leaves the new item first,
\* followed by the most recent items it found, newest first.
C30_FeedsKeepMostRecent ==
    [][/\ Len(information'.rumorMill) <= 15
       /\ Len(information'.news) <= 20
       /\ (ret'.op = "addRumor" /\ calls' = calls + 1)
              => LET old == information.rumorMill
                     new == information'.rumorMill
                     kept == Min(Len(old), 14)
                 IN  /\ Len(new) = kept + 1
                     /\ new[Len(new)] = ret'.rumor
                     /\ SubSeq(new, 1, kept)
                            = SubSeq(old, Len(old) - kept + 1, Len(old))
                     /\ information'.news = information.news
       /\ (ret'.op = "addNews" /\ calls' = calls + 1)
              => LET old == information.news
                     new == information'.news
                     kept == Min(Len(old), 19)
                 IN  /\ Len(new) = kept + 1
                     /\ new[1] = ret'.newsItem
                     /\ SubSeq(new, 2, kept + 1) = SubSeq(old, 1, kept)
                     /\ information'.rumorMill = information.rumorMill]_vars

\* both feeds were full, and a rumor and a news item were added: the oldest
\* rumor and the oldest news item are gone
C30_Witness ==
    /\ calls = 2
    /\ Len(information.rumorMill) = 15
    /\ information.rumorMill[1] = "r2"
    /\ information.rumorMill[15] = "a"
    /\ Len(information.news) = 20
    /\ information.news[1] = "b"
    /\ information.news[20] = "n2"

-----------------------------------------------------------------------------
(* Properties of the World State: the life of events *)

\* the events the history records as added
AddedEvents(changes) ==
    {i \in 1..Len(changes) : changes[i].type = "event_added"}

\* C31: completeEvent(id, success) takes the first current event with that
\* id out of current and appends it, with its end time stamped, to completed
\* when success is true and to failed otherwise; for an id that is not in
\* current it throws and leaves the partitions as they were; and after every
\* call there are as many events in current, completed and failed together
\* as events were added.
C31_CompleteMovesEvent ==
    [][/\ (ret'.op = "completeEvent" /\ calls' = calls + 1)
              => LET cur0 == events.current
                     holders == {i \in 1..Len(cur0) :
                                     cur0[i].id = ret'.eventId}
                 IN  IF holders = {}
                     THEN ret'.threw # None /\ events' = events
                     ELSE \E i \in holders :
                            LET to == IF ret'.success THEN "completed"
                                      ELSE "failed"
                                other == IF ret'.success THEN "failed"
                                         ELSE "completed"
                                moved == events'[to][Len(events'[to])]
                            IN  /\ \A j \in holders : i <= j
                                /\ ret'.threw = None
                                /\ events'.current
                                       = SubSeq(cur0, 1, i - 1)
                                         \o SubSeq(cur0, i + 1, Len(cur0))
                                /\ Len(events'[to]) = Len(events[to]) + 1
                                /\ SubSeq(events'[to], 1, Len(events[to]))
                                       = events[to]
                                /\ events'[other] = events[other]
                                /\ moved.id = cur0[i].id
                                /\ moved.name = cur0[i].name
                                /\ moved.endTime = toISOString(now)
                                /\ moved.status = to
       /\ Cardinality(AddedEvents(worldChanges'))
              = Len(events'.current) + Len(events'.completed)
                + Len(events'.failed)]_vars

\* two events were added and the second one was completed as a failure
C31_Witness ==
    /\ calls = 3
    /\ ret.op = "completeEvent"
    /\ ret.threw = None
    /\ ~ret.success
    /\ Len(events.current) = 1
    /\ Len(events.failed) = 1
    /\ events.failed[1].id = "b"

-----------------------------------------------------------------------------
(* Properties of the World State: the clock *)

\* the place of v in s, counted from 0
Place(s, v) ==
    CHOOSE i \in 0..(Len(s) - 1) : s[i + 1] = v

\* the number of time-of-day slots from the dawn of day 1 of the first month
\* of year 0 to the clock tmp
Slots(tmp) ==
    (((tmp.year * 4 + Place(monthMap, tmp.month)) * 30) + (tmp.day - 1)) * 6
    + Place(timeOfDayMap, tmp.timeOfDay)

\* the number of slots in one unit
SlotsOf(unit) ==
    CASE unit = "hour" -> 1
      [] unit = "day" -> 6
      [] unit = "month" -> 180
      [] unit = "year" -> 720

\* C34: the day is within 1..30, the time of day is one of the six slots,
\* the month one of the four months and the season the one paired with it;
\* advanceTime with a positive amount of hours, days, months or years moves
\* the clock on by exactly that much, a day after the last slot, a month
\* after day 30 and a year after the last month; an unknown unit fails and
\* leaves the clock as it was.
C34_ClockRollsOver ==
    [][/\ temporal'.day \in 1..30
       /\ \E i \in 1..6 : temporal'.timeOfDay = timeOfDayMap[i]
       /\ \E i \in 1..4 : /\ temporal'.month = monthMap[i]
                          /\ temporal'.season = seasonMap[i]
       /\ (ret'.op = "advanceTime" /\ calls' = calls + 1)
              => IF ret'.unit \in {"hour", "day", "month", "year"}
                 THEN /\ ret'.threw = None
                      /\ Slots(temporal')
                             = Slots(temporal)
                               + ret'.amount * SlotsOf(ret'.unit)
                      /\ temporal'.weather = temporal.weather
                 ELSE /\ ret'.threw # None
                      /\ temporal' = temporal
       /\ (ret'.op = "advanceTime" /\ calls' = calls + 1
           /\ ret'.amount = 1 /\ ret'.unit = "hour"
           /\ temporal.timeOfDay = "night" /\ temporal.day < 30)
              => /\ temporal'.timeOfDay = "dawn"
                 /\ temporal'.day = temporal.day + 1
       /\ (ret'.op = "advanceTime" /\ calls' = calls + 1
           /\ ret'.amount = 1 /\ ret'.unit = "day" /\ temporal.day = 30)
              => /\ temporal'.day = 1
                 /\ temporal'.month # temporal.month
       /\ (ret'.op = "advanceTime" /\ calls' = calls + 1
           /\ ret'.amount = 1 /\ ret'.unit = "month"
           /\ temporal.month = "fourthmonth")
              => /\ temporal'.month = "firstmonth"
                 /\ temporal'.year = temporal.year + 1]_vars

\* the clock passed the last slot of day 30 and then the last month
C34_Witness ==
    /\ ret.op = "advanceTime"
    /\ ret.unit = "month"
    /\ temporal.timeOfDay = "dawn"
    /\ temporal.day = 1
    /\ temporal.month = "firstmonth"
    /\ temporal.season = "spring"
    /\ temporal.year = 1001

-----------------------------------------------------------------------------
(* Properties of the World State: events that run out *)

\* the current events that are temporary and whose end time has come by t
Expired(evs, t) ==
    {i \in 1..Len(evs.current) :
        /\ evs.current[i].duration = "temporary"
        /\ evs.current[i].endTime # Null
        /\ TimeOf(evs.current[i].endTime) <= t}

\* C40: after an advanceTime no temporary event whose end time is at or
\* before the current instant is left in current, and each event that was
\* in that case has been appended to completed once.
C40_ExpiredEventsCompleted ==
    [][(ret'.op = "advanceTime" /\ calls' = calls + 1
        /\ ret'.threw = None)
           => /\ Expired(events', now) = {}
              /\ Len(events'.completed)
                     = Len(events.completed)
                       + Cardinality(Expired(events, now))]_vars

-----------------------------------------------------------------------------
(* Properties of the integrity scan *)

\* the NPCs whose location is no stored location
HomelessNPCs ==
    {i \in DOMAIN entities["npc"] :
        /\ entities["npc"][i].location # Null
        /\ entities["npc"][i].location \notin DOMAIN entities["location"]}

\* the places <<faction, k>> of a leader who is no stored NPC
UnknownLeaders ==
    UNION {{<<i, k>> :
               k \in {j \in 1..Len(entities["faction"][i].leadership) :
                         entities["faction"][i].leadership[j]
                             \notin DOMAIN entities["npc"]}} :
           i \in DOMAIN entities["faction"]}

\* the places <<location, k>> of a connection to no stored location
BrokenConnections ==
    UNION {{<<i, k>> :
               k \in {j \in 1..Len(entities["location"][i].connectedTo) :
                         entities["location"][i].connectedTo[j]
                             \notin DOMAIN entities["location"]}} :
           i \in DOMAIN entities["location"]}

\* the world parameters outside 0..100
StrayParameters ==
    {p \in DOMAIN globalParameters :
        globalParameters[p] < 0 \/ globalParameters[p] > 100}

\* C32: a scan reports as many errors as there are NPC locations, faction
\* leaders and location connections that lead nowhere and world parameters
\* outside 0..100, none when there are none, and changes nothing.
C32_ScanReportsEveryOrphan ==
    [][(ret'.op = "validateGameStateIntegrity" /\ calls' = calls + 1)
           => /\ Cardinality(ret'.integrity.errors)
                     = Cardinality(HomelessNPCs) + Cardinality(UnknownLeaders)
                       + Cardinality(BrokenConnections)
                       + Cardinality(StrayParameters)
              /\ UNCHANGED <<storeVars, player, storyContext, meta,
                             temporal>>]_vars

-----------------------------------------------------------------------------
(* Properties of the Relationship Graph: the network of an entity *)

\* the targets of the edges of type type that leave x
Targets(x, type) ==
    IF x \in DOMAIN relationships
    THEN {y \in DOMAIN relationships[x] : relationships[x][y].type = type}
    ELSE {}

\* t is a target of a strongest edge among those from x to ts, or null when
\* ts is empty
Strongest(x, ts, t) ==
    IF ts = {}
    THEN t = Null
    ELSE /\ t \in ts
         /\ \A u \in ts : relationships[x][u].strength
                              <= relationships[x][t].strength

\* C33: analyzeRelationshipNetwork(id) counts the edges that leave id,
\* allies + enemies + neutral is that count, mostTrusted is the target of a
\* strongest ally edge and mostFeared of a strongest enemy edge (null when
\* there is none), networkInfluence is 2*allies - enemies + neutral, and
\* for an id without edges every count is 0.
C33_NetworkAnalysis ==
    [][(ret'.op = "analyzeRelationshipNetwork" /\ calls' = calls + 1)
           => LET a == ret'.analysis
                  x == ret'.entityId
                  out == IF x \in DOMAIN relationships
                         THEN DOMAIN relationships[x] ELSE {}
              IN  /\ a.directConnections = Cardinality(out)
                  /\ a.allies = Cardinality(Targets(x, "ally"))
                  /\ a.enemies = Cardinality(Targets(x, "enemy"))
                  /\ a.allies + a.enemies + a.neutral = a.directConnections
                  /\ Strongest(x, Targets(x, "ally"), a.mostTrusted)
                  /\ Strongest(x, Targets(x, "enemy"), a.mostFeared)
                  /\ a.networkInfluence
                         = 2 * a.allies - a.enemies + a.neutral
                  /\ out = {} => /\ a.directConnections = 0
                                 /\ a.networkInfluence = 0]_vars

-----------------------------------------------------------------------------
(* Properties of the read-side calls *)

ReadCalls ==
    {"getEntity", "getAllEntities", "getRelationship", "getPlayerStanding",
     "calculateRelationshipStrength", "analyzeRelationshipNetwork",
     "analyzeWorldState"}

\* C35: a read call leaves the Entity Store, the edges, the player
\* standings, the histories and the world state as they were; in particular
\* getPlayerStanding of an id without a standing stores none.
C35_ReadsChangeNothing ==
    [][(ret'.op \in ReadCalls /\ calls' = calls + 1)
           => /\ entities' = entities
              /\ creationHistory' = creationHistory
              /\ relationships' = relationships
              /\ DOMAIN playerStandings' = DOMAIN playerStandings
              /\ playerStandings' = playerStandings
              /\ relationshipHistory' = relationshipHistory
              /\ globalParameters' = globalParameters
              /\ worldChanges' = worldChanges
              /\ events' = events
              /\ information' = information]_vars

\* the standing of an id that has none was read, in a graph with edges
C35_Witness ==
    /\ ret.op = "getPlayerStanding"
    /\ ret.entityId \notin DOMAIN playerStandings
    /\ ret.value.value = 0
    /\ relationships # EmptyMap


-----------------------------------------------------------------------------
(* Properties of the pipeline: the lock *)

\* a call that took the lock is running
Running ==
    pc # "idle"

\* C36: the call that took the lock holds it exactly while it runs: when it
\* finishes, by returning or by an error of applyWorldUpdates leaving
\* through the finally block, the lock is free; a submission that finds no
\* call running is started at once and not queued; and a call that runs
\* finishes.
C36_LockReleased ==
    /\ [](Running <=> processingLock)
    /\ [][(Running /\ ~Running')
              => /\ ~processingLock'
                 /\ ret'.result \in {"returned", "threw"}]_progress
    /\ [][(submitted' = submitted + 1 /\ ~Running)
              => /\ processingLock'
                 /\ Running'
                 /\ cur'.batch = submitted'
                 /\ creationQueue' = creationQueue]_submitted
    /\ (processingLock ~> ~processingLock)

\* a call ended by the error of its world updates with a payload still
\* queued, and the submission made after it is being processed
C36_Witness ==
    /\ "result" \in DOMAIN ret
    /\ ret.result = "threw"
    /\ processingLock
    /\ cur.batch = submitted
    /\ ret.batch < cur.batch
    /\ creationQueue # <<>>

-----------------------------------------------------------------------------
(* Properties of the pipeline: connecting a new location *)

\* how often id stands in the list connectedTo
Times(connectedTo, id) ==
    Cardinality({i \in DOMAIN connectedTo : connectedTo[i] = id})

\* the locations the pipeline admits in this step
Admitted ==
    DOMAIN entities'["location"] \ DOMAIN entities["location"]

\* C39: a location admitted without proposed connections ends up linked to
\* at most two locations, the player's location and one further compatible
\* one, each of them named once in its list and naming it once in theirs.
C39_LinkedOnceEachWay ==
    [][\A l \in Admitted :
           LET locs == entities'["location"]
               linked == {locs[l].connectedTo[i] :
                              i \in DOMAIN locs[l].connectedTo}
           IN  /\ Len(locs[l].connectedTo) <= 2
               /\ Cardinality(linked \ {PlayerLocation}) <= 1
               /\ \A o \in linked :
                      /\ o \in DOMAIN locs
                      /\ areLocationsConnectable(locs[l], locs[o])
                      /\ Times(locs[l].connectedTo, o) = 1
                      /\ Times(locs[o].connectedTo, l) = 1]_vars

-----------------------------------------------------------------------------
(* Properties of the Entity Store: identity *)

\* C37: every record of the Entity Store names, as its id and its type, the
\* key and the kind it is stored under.
C37_IdentityStable ==
    \A K \in Kinds :
        \A I \in DOMAIN entities[K] :
            /\ entities[K][I].id = I
            /\ entities[K][I].type = K

-----------------------------------------------------------------------------
(* Properties of the Entity Store: what a deletion leaves behind *)

\* the ids the record r refers to
References(r) ==
    {r.location} \cup {r.connectedTo[i] : i \in DOMAIN r.connectedTo}
    \cup (IF "leadership" \in DOMAIN r
          THEN {r.leadership[i] : i \in DOMAIN r.leadership}
          ELSE {})

\* C38: deleteEntity(kind, id) takes at most the record (kind, id) out of
\* the Entity Store and changes nothing else: every other record, with its
\* location, its leadership and its connections, the creation history, the
\* edges from and to id, the ledger, the player standings and the world
\* state are as before.
C38_DeleteLeavesTheRest ==
    [][(ret'.op = "deleteEntity" /\ calls' = calls + 1)
           => /\ \A K \in Kinds :
                     /\ DOMAIN entities'[K]
                            = DOMAIN entities[K]
                                  \ (IF K = ret'.type THEN {ret'.id} ELSE {})
                     /\ \A I \in DOMAIN entities'[K] :
                            entities'[K][I] = entities[K][I]
              /\ creationHistory' = creationHistory
              /\ relationships' = relationships
              /\ relationshipHistory' = relationshipHistory
              /\ playerStandings' = playerStandings
              /\ globalParameters' = globalParameters
              /\ worldChanges' = worldChanges
              /\ events' = events
              /\ information' = information]_vars

\* the village elder was deleted: the edge from the elder, the standing with
\* the elder and the council led by the elder are still there
C38_Witness ==
    /\ ret.op = "deleteEntity"
    /\ ret.value = TRUE
    /\ ret.id = "village_elder"
    /\ "village_elder" \notin DOMAIN entities["npc"]
    /\ "village_elder" \in DOMAIN relationships
    /\ "village_council" \in DOMAIN relationships["village_elder"]
    /\ "village_elder" \in DOMAIN playerStandings
    /\ "village_elder" \in References(entities["faction"]["village_council"])
====
